---- MODULE Spec2Model ----
(***************************************************************************)
(* Tournament progression engine of marymont-ping-pong (AWS Lambda,        *)
(* Python): score evaluation, match store, advancement, standings,         *)
(* groups and bracket seeding, as routed by lambda_function.handler.       *)
(*                                                                         *)
(* Documents live in S3 as JSON; each document is one variable, indexed by *)
(* category.  Timestamps (updatedAt, scheduledAt) are not modelled.        *)
(***************************************************************************)
EXTENDS Integers, Sequences, FiniteSets, TLC

VARIABLES
    accounts,         \* data/accounts.json                (the users)
    players,          \* data/{cat}/players.json         (ids, read only)
    groups,           \* data/{cat}/groups.json
    matches_group,    \* data/{cat}/matches_group.json
    standings_group,  \* data/{cat}/standings_group.json
    bracket,          \* data/{cat}/bracket.json
    matches_elim,     \* data/{cat}/matches_elim.json
    matches,          \* data/{cat}/matches.json
    standings,        \* data/{cat}/standings.json
    last,             \* the last request handled and the response to it
    steps,            \* number of requests handled so far
    evalSets,         \* evaluator harness: the sets given so far
    evalOut,          \* evaluator harness: results for the five sets
    probe,            \* evaluator harness: one set and its tally
    calls             \* score updates in flight: position, snapshot, answer

vars == << accounts, players, groups, matches_group, standings_group, bracket,
           matches_elim, matches, standings, last, steps,
           evalSets, evalOut, probe, calls >>

docs == << accounts, players, groups, matches_group, standings_group, bracket,
           matches_elim, matches, standings >>

harness == << evalSets, evalOut, probe, calls >>

-----------------------------------------------------------------------------
(* Python values *)

\* Python None, as it appears in p1/p2/winner/updatedBy fields
None == "None"

\* A JSON score value: an integer, a number with a fractional part
\* (v + 0.5), a string holding the decimal integer v, another string, null.
IntV(n)    == [k |-> "int",    v |-> n]
FracV(n)   == [k |-> "frac",   v |-> n]
NumStrV(n) == [k |-> "numstr", v |-> n]
StrV       == [k |-> "str",    v |-> 0]
NullV      == [k |-> "null",   v |-> 0]

\* int(x): fails (ValueError / TypeError) on a non-numeric string and on
\* None, truncates a float towards zero, parses a decimal string.
int(x) ==
    CASE x.k = "int"    -> [ok |-> TRUE, v |-> x.v]
      [] x.k = "frac"   -> [ok |-> TRUE, v |-> IF x.v >= 0 THEN x.v ELSE x.v + 1]
      [] x.k = "numstr" -> [ok |-> TRUE, v |-> x.v]
      [] OTHER          -> [ok |-> FALSE, v |-> 0]

\* a set of the payload / of a stored match
SetOf(a, b) == [p1 |-> IntV(a), p2 |-> IntV(b)]

NumSets == 5
MaxScore == 50
MinWinScore == 11
MinMargin == 2
SetsToWin == 3

-----------------------------------------------------------------------------
(* Scoring rules: matches.py, bracket.py, standings.py each carry a copy *)

max(a, b) == IF a >= b THEN a ELSE b
abs(a) == IF a >= 0 THEN a ELSE -a

\* a variant of matches_valid_set without the margin of two points
matches_valid_set_mut_nomargin(a, b) == max(a, b) >= MinWinScore

matches_valid_set(a, b) ==
    LET mx == max(a, b)
        diff == abs(a - b)
    IN  mx >= MinWinScore /\ diff >= MinMargin

bracket_valid_set(a, b) ==
    LET mx == max(a, b)
        diff == abs(a - b)
    IN  mx >= MinWinScore /\ diff >= MinMargin

\* a variant of standings_valid_set that asks for no margin
standings_valid_set_mut_no_margin(a, b) ==
    LET mx == max(a, b)
    IN  mx >= MinWinScore /\ a # b

standings_valid_set(a, b) ==
    LET mx == max(a, b)
        diff == abs(a - b)
    IN  mx >= MinWinScore /\ diff >= MinMargin

\* the loop of _compute_winner: <<w1, w2>> after the sets i..Len(sets)
RECURSIVE matches_tally(_, _, _, _)
matches_tally(sets, i, w1, w2) ==
    IF i > Len(sets) THEN << w1, w2 >>
    ELSE LET a == int(sets[i].p1).v
             b == int(sets[i].p2).v
         IN  IF ~matches_valid_set(a, b) THEN matches_tally(sets, i + 1, w1, w2)
             ELSE IF a > b THEN matches_tally(sets, i + 1, w1 + 1, w2)
             ELSE matches_tally(sets, i + 1, w1, w2 + 1)

\* a variant of matches_compute_winner that is content with two sets
matches_compute_winner_mut_two(sets) ==
    LET w == matches_tally(sets, 1, 0, 0)
    IN  IF w[1] >= 2 THEN "p1" ELSE IF w[2] >= 2 THEN "p2" ELSE None

matches_compute_winner(sets) ==
    LET w == matches_tally(sets, 1, 0, 0)
    IN  IF w[1] >= SetsToWin THEN "p1"
        ELSE IF w[2] >= SetsToWin THEN "p2"
        ELSE None

RECURSIVE bracket_tally(_, _, _, _)
bracket_tally(sets, i, w1, w2) ==
    IF i > Len(sets) THEN << w1, w2 >>
    ELSE LET a == int(sets[i].p1).v
             b == int(sets[i].p2).v
         IN  IF ~bracket_valid_set(a, b) THEN bracket_tally(sets, i + 1, w1, w2)
             ELSE IF a > b THEN bracket_tally(sets, i + 1, w1 + 1, w2)
             ELSE bracket_tally(sets, i + 1, w1, w2 + 1)

bracket_winner_side(sets) ==
    LET w == bracket_tally(sets, 1, 0, 0)
    IN  IF w[1] >= SetsToWin THEN "p1"
        ELSE IF w[2] >= SetsToWin THEN "p2"
        ELSE None

-----------------------------------------------------------------------------
(* Identity and stored data *)

Categories == {"man", "woman"}

\* auth.verify_from_header: the token's payload, or None (valid = FALSE)
Anonymous == [valid |-> FALSE, sub |-> None, role |-> None, playerId |-> None]
Admin == [valid |-> TRUE, sub |-> "admin", role |-> "admin", playerId |-> None]
Player(p) == [valid |-> TRUE, sub |-> p, role |-> "player", playerId |-> p]

\* data/accounts.json as first deployed: the users, in stored order
Registered ==
    << [username |-> "admin", role |-> "admin",  category |-> None,    playerId |-> None],
       [username |-> "a",     role |-> "player", category |-> "man",   playerId |-> "a"],
       [username |-> "b",     role |-> "player", category |-> "man",   playerId |-> "b"],
       [username |-> "c",     role |-> "player", category |-> "man",   playerId |-> "c"],
       [username |-> "w",     role |-> "player", category |-> "woman", playerId |-> "w"] >>

\* _get_json(_p_accounts(), {"users": []}).get("users", [])
Accounts == accounts.users

\* advancesTo: {matchId, as}; NoAdv stands for None and for a missing key
NoAdv == [matchId |-> 0, as |-> ""]
Adv(id, slot) == [matchId |-> id, as |-> slot]

\* Python truthiness of a string-or-None field
Truthy(x) == x # None /\ x # ""

Resp(code, msg) == [code |-> code, msg |-> msg]

\* index of the first match with the given id, 0 when there is none
FindIdx(ms, id) ==
    LET hits == {i \in 1..Len(ms) : ms[i].id = id}
    IN  IF hits = {} THEN 0 ELSE CHOOSE i \in hits : \A j \in hits : i <= j

-----------------------------------------------------------------------------
(* standings.py *)

_get_all_players_in_category(category) ==
    LET ok(acc) == /\ acc.role \in {"player", "admin"}
                   /\ acc.category = category
                   /\ acc.playerId # None
        sel == SelectSeq(Accounts, ok)
    IN  [i \in 1..Len(sel) |-> sel[i].playerId]

_initialize_player_stats(player_id) ==
    [playerId |-> player_id, matchesPlayed |-> 0, wins |-> 0, losses |-> 0,
     setsWon |-> 0, setsLost |-> 0, pointsWon |-> 0, pointsLost |-> 0,
     setDifference |-> 0, pointDifference |-> 0, winPercentage |-> 0, rank |-> 0]

\* round(wins / matchesPlayed, 3), in thousandths.  No value is half-way
\* between two thousandths while matchesPlayed < 16.
Round3(w, n) == (2000 * w + n) \div (2 * n)

\* a variant of _update_player_stats that forgets the points conceded
_update_player_stats_mut_no_conceded(stats, sets_for, sets_against, points_for, points_against, won) ==
    LET mp == stats.matchesPlayed + 1
        sw == stats.setsWon + sets_for
        sl == stats.setsLost + sets_against
        pw == stats.pointsWon + points_for
        pl == stats.pointsLost
        w  == IF won THEN stats.wins + 1 ELSE stats.wins
        l  == IF won THEN stats.losses ELSE stats.losses + 1
    IN  [stats EXCEPT !.matchesPlayed = mp, !.setsWon = sw, !.setsLost = sl,
                      !.pointsWon = pw, !.pointsLost = pl,
                      !.setDifference = sw - sl, !.pointDifference = pw - pl,
                      !.wins = w, !.losses = l,
                      !.winPercentage = Round3(w, mp)]

_update_player_stats(stats, sets_for, sets_against, points_for, points_against, won) ==
    LET mp == stats.matchesPlayed + 1
        sw == stats.setsWon + sets_for
        sl == stats.setsLost + sets_against
        pw == stats.pointsWon + points_for
        pl == stats.pointsLost + points_against
        w  == IF won THEN stats.wins + 1 ELSE stats.wins
        l  == IF won THEN stats.losses ELSE stats.losses + 1
    IN  [stats EXCEPT !.matchesPlayed = mp, !.setsWon = sw, !.setsLost = sl,
                      !.pointsWon = pw, !.pointsLost = pl,
                      !.setDifference = sw - sl, !.pointDifference = pw - pl,
                      !.wins = w, !.losses = l,
                      !.winPercentage = Round3(w, mp)]

\* the sort key of _rank_players, compared as Python compares tuples:
\* TRUE when row x sorts strictly before row y
KeyBefore(x, y) ==
    \/ x.wins > y.wins
    \/ /\ x.wins = y.wins
       /\ \/ x.setDifference > y.setDifference
          \/ /\ x.setDifference = y.setDifference
             /\ \/ x.pointDifference > y.pointDifference
                \/ /\ x.pointDifference = y.pointDifference
                   /\ x.winPercentage > y.winPercentage

\* a variant of InsertStable that puts a row in front of the rows it ties with
InsertStable_mut_unstable(sorted, x) ==
    LET later == {i \in 1..Len(sorted) : ~KeyBefore(sorted[i], x)}
        pos == IF later = {} THEN Len(sorted) + 1
               ELSE CHOOSE i \in later : \A j \in later : i <= j
    IN  SubSeq(sorted, 1, pos - 1) \o << x >> \o SubSeq(sorted, pos, Len(sorted))

\* list.sort is stable: a row goes behind every row that does not sort after it
InsertStable(sorted, x) ==
    LET later == {i \in 1..Len(sorted) : KeyBefore(x, sorted[i])}
        pos == IF later = {} THEN Len(sorted) + 1
               ELSE CHOOSE i \in later : \A j \in later : i <= j
    IN  SubSeq(sorted, 1, pos - 1) \o << x >> \o SubSeq(sorted, pos, Len(sorted))

RECURSIVE SortStable(_, _, _)
SortStable(rows, i, acc) ==
    IF i > Len(rows) THEN acc
    ELSE SortStable(rows, i + 1, InsertStable(acc, rows[i]))

\* a variant of _rank_players that numbers the rows without sorting them
_rank_players_mut_unsorted(rows) == [i \in 1..Len(rows) |-> [rows[i] EXCEPT !.rank = i]]

\* a variant of _rank_players that numbers the sorted rows from 0
_rank_players_mut_zero(rows) ==
    LET s == SortStable(rows, 1, << >>)
    IN  [i \in 1..Len(s) |-> [s[i] EXCEPT !.rank = i - 1]]

_rank_players(rows) ==
    LET s == SortStable(rows, 1, << >>)
    IN  [i \in 1..Len(s) |-> [s[i] EXCEPT !.rank = i]]

\* the per-set loop of compute_standings: <<p1_sets, p2_sets, p1_points, p2_points>>
\* a variant of standings_tally that adds the points of valid sets only
RECURSIVE standings_tally_mut_valid_points(_, _, _)
standings_tally_mut_valid_points(sets, i, t) ==
    IF i > Len(sets) THEN t
    ELSE LET a == int(sets[i].p1).v
             b == int(sets[i].p2).v
             ok == standings_valid_set(a, b)
             s1 == IF ok /\ a > b THEN 1 ELSE 0
             s2 == IF ok /\ ~(a > b) THEN 1 ELSE 0
         IN  standings_tally_mut_valid_points(sets, i + 1,
                 << t[1] + s1, t[2] + s2,
                    t[3] + (IF ok THEN a ELSE 0), t[4] + (IF ok THEN b ELSE 0) >>)

RECURSIVE standings_tally(_, _, _)
standings_tally(sets, i, t) ==
    IF i > Len(sets) THEN t
    ELSE LET a == int(sets[i].p1).v
             b == int(sets[i].p2).v
             s1 == IF standings_valid_set(a, b) /\ a > b THEN 1 ELSE 0
             s2 == IF standings_valid_set(a, b) /\ ~(a > b) THEN 1 ELSE 0
         IN  standings_tally(sets, i + 1,
                 << t[1] + s1, t[2] + s2, t[3] + a, t[4] + b >>)

StatIdx(stats, pid) ==
    LET hits == {i \in 1..Len(stats) : stats[i].playerId = pid}
    IN  IF hits = {} THEN 0 ELSE CHOOSE i \in hits : TRUE

\* a variant of ProcessMatch that counts a match for the one competitor who
\* has a row when the other has none
ProcessMatch_mut_half(stats, m) ==
    LET i1 == StatIdx(stats, m.p1)
        i2 == StatIdx(stats, m.p2)
        t  == standings_tally(m.sets, 1, << 0, 0, 0, 0 >>)
        s1 == IF i1 = 0 THEN stats
              ELSE [stats EXCEPT ![i1] = _update_player_stats(stats[i1],
                        t[1], t[2], t[3], t[4], m.winner = m.p1)]
    IN  IF i2 = 0 THEN s1
        ELSE [s1 EXCEPT ![i2] = _update_player_stats(s1[i2],
                    t[2], t[1], t[4], t[3], m.winner = m.p2)]

\* one iteration of "for match in finished_matches"
ProcessMatch(stats, m) ==
    LET i1 == StatIdx(stats, m.p1)
        i2 == StatIdx(stats, m.p2)
        t  == standings_tally(m.sets, 1, << 0, 0, 0, 0 >>)
        s1 == [stats EXCEPT ![i1] = _update_player_stats(stats[i1],
                    t[1], t[2], t[3], t[4], m.winner = m.p1)]
    IN  IF i1 = 0 \/ i2 = 0 THEN stats
        ELSE [s1 EXCEPT ![i2] = _update_player_stats(s1[i2],
                    t[2], t[1], t[4], t[3], m.winner = m.p2)]

RECURSIVE ProcessMatches(_, _, _)
ProcessMatches(stats, ms, i) ==
    IF i > Len(ms) THEN stats
    ELSE ProcessMatches(ProcessMatch(stats, ms[i]), ms, i + 1)

\* the keys of the dict player_stats, in insertion order: an id met again
\* keeps the place of its first insertion
RECURSIVE DictKeys(_, _, _)
DictKeys(ids, i, acc) ==
    IF i > Len(ids) THEN acc
    ELSE DictKeys(ids, i + 1,
             IF \E k \in 1..Len(acc) : acc[k] = ids[i] THEN acc
             ELSE Append(acc, ids[i]))

\* the table compute_standings builds from the stored matches of a category
StandingsTable(ms, category) ==
    LET ids == DictKeys(_get_all_players_in_category(category), 1, << >>)
        init == [i \in 1..Len(ids) |-> _initialize_player_stats(ids[i])]
        finished == SelectSeq(ms, LAMBDA m : m.status = "final")
    IN  _rank_players(ProcessMatches(init, finished, 1))

\* a variant of compute_standings that patches the stored rows with the
\* finished matches instead of starting from empty rows
compute_standings_mut_patch(M, S, category, auth) ==
    IF ~auth.valid \/ auth.role # "admin"
    THEN [resp |-> Resp(403, "Forbidden"), standings |-> S]
    ELSE IF category \notin Categories
    THEN [resp |-> Resp(400, "category must be man|woman"), standings |-> S]
    ELSE LET fresh == StandingsTable(M[category].matches, category)
             old == S[category].players
             finished == SelectSeq(M[category].matches, LAMBDA m : m.status = "final")
             rows == IF Len(old) = Len(fresh)
                     THEN _rank_players(ProcessMatches(old, finished, 1))
                     ELSE fresh
         IN  [resp |-> Resp(200, "ok"),
              standings |-> [S EXCEPT ![category] = [players |-> rows, version |-> 1]]]

\* compute_standings(payload, auth_user): M, S are the matches and standings
\* documents; the result carries the response and the standings documents
compute_standings(M, S, category, auth) ==
    IF ~auth.valid \/ auth.role # "admin"
    THEN [resp |-> Resp(403, "Forbidden"), standings |-> S]
    ELSE IF category \notin Categories
    THEN [resp |-> Resp(400, "category must be man|woman"), standings |-> S]
    ELSE [resp |-> Resp(200, "ok"),
          standings |-> [S EXCEPT ![category] =
              [players |-> StandingsTable(M[category].matches, category),
               version |-> 1]]]

-----------------------------------------------------------------------------
(* matches.py *)

ScoreStatuses == {"scheduled", "in_progress", "final"}
MatchStatuses == {"pending", "scheduled", "in_progress", "final"}

\* "Normalize & validate sets" of update_score: the first set that int()
\* cannot convert, or that is out of range, ends the loop with its error
RECURSIVE normalize(_, _, _)
normalize(sets, i, acc) ==
    IF i > Len(sets) THEN [err |-> "", norm |-> acc]
    ELSE LET a == int(sets[i].p1)
             b == int(sets[i].p2)
         IN  IF ~a.ok \/ ~b.ok
             THEN [err |-> "sets must contain integers", norm |-> << >>]
             ELSE IF a.v < 0 \/ b.v < 0 \/ a.v > MaxScore \/ b.v > MaxScore
             THEN [err |-> "unreasonable set score", norm |-> << >>]
             ELSE normalize(sets, i + 1, Append(acc, SetOf(a.v, b.v)))

\* "Validate sets if provided" of create_match / update_match: the sets are
\* checked, and stored as they were sent
RECURSIVE validate_sets(_, _)
validate_sets(sets, i) ==
    IF i > Len(sets) THEN ""
    ELSE LET a == int(sets[i].p1)
             b == int(sets[i].p2)
         IN  IF ~a.ok \/ ~b.ok THEN "set scores must be integers"
             ELSE IF a.v < 0 \/ b.v < 0 \/ a.v > MaxScore \/ b.v > MaxScore
             THEN "set scores must be between 0 and 50"
             ELSE validate_sets(sets, i + 1)

WinnerId(m, who) == IF who = "p1" THEN m.p1 ELSE IF who = "p2" THEN m.p2 ELSE None

\* a variant of matches_propagate that makes up the missing next match
matches_propagate_mut_create(ms, m) ==
    IF m.type = "elimination" /\ m.advancesTo # NoAdv /\ Truthy(m.winner)
    THEN LET n == FindIdx(ms, m.advancesTo.matchId)
         IN  IF n = 0
             THEN Append(ms, [m EXCEPT !.id = m.advancesTo.matchId,
                                       !.advancesTo = NoAdv, !.winner = None])
             ELSE IF m.advancesTo.as = "p1" THEN [ms EXCEPT ![n].p1 = m.winner]
             ELSE [ms EXCEPT ![n].p2 = m.winner]
    ELSE ms

\* lines 172-181: the file is read again and the slot of the next match set
matches_propagate(ms, m) ==
    IF m.type = "elimination" /\ m.advancesTo # NoAdv /\ Truthy(m.winner)
    THEN LET n == FindIdx(ms, m.advancesTo.matchId)
         IN  IF n = 0 THEN ms
             ELSE IF m.advancesTo.as = "p1" THEN [ms EXCEPT ![n].p1 = m.winner]
             ELSE [ms EXCEPT ![n].p2 = m.winner]
    ELSE ms

\* lines 183-192: standings are recomputed for a group match, with the
\* caller's identity; whatever compute_standings answers is dropped
matches_refresh(M, S, m, category, auth) ==
    IF m.type = "group" THEN compute_standings(M, S, category, auth).standings
    ELSE S

\* a variant of matches_score_permitted that lets every caller through
matches_score_permitted_mut_open(auth, m) == TRUE

\* "Permission: players only on their own matches; admin any"
matches_score_permitted(auth, m) ==
    auth.role = "admin" \/ auth.playerId \in {m.p1, m.p2}

\* a variant of matches_update_score_checks without the check of the length
matches_update_score_checks_mut_nolen(M, req) ==
    IF ~req.auth.valid THEN Resp(401, "Unauthorized")
    ELSE IF req.category \notin Categories THEN Resp(400, "category must be man|woman")
    ELSE IF req.status \notin ScoreStatuses THEN Resp(400, "status invalid")
    ELSE IF req.matchId = 0 THEN Resp(400, "matchId and exactly 5 sets required")
    ELSE Resp(200, "ok")

\* update_score, lines 115-128: the checks made before the store is read
matches_update_score_checks(M, req) ==
    IF ~req.auth.valid THEN Resp(401, "Unauthorized")
    ELSE IF req.category \notin Categories THEN Resp(400, "category must be man|woman")
    ELSE IF req.status \notin ScoreStatuses THEN Resp(400, "status invalid")
    ELSE IF req.matchId = 0 \/ Len(req.sets) # NumSets
    THEN Resp(400, "matchId and exactly 5 sets required")
    ELSE Resp(200, "ok")

\* update_score(payload, auth_user), req = [auth, category, matchId, sets, status]
matches_update_score(M, S, req) ==
    LET pre == matches_update_score_checks(M, req)
        stay(r) == [resp |-> r, matches |-> M, standings |-> S]
    IN  IF pre.code # 200 THEN stay(pre)
        ELSE
        LET ms  == M[req.category].matches
            idx == FindIdx(ms, req.matchId)
        IN  IF idx = 0 THEN stay(Resp(404, "Match not found"))
            ELSE IF ~matches_score_permitted(req.auth, ms[idx])
            THEN stay(Resp(403, "Forbidden"))
            ELSE
            LET nz == normalize(req.sets, 1, << >>)
            IN  IF nz.err # "" THEN stay(Resp(400, nz.err))
                ELSE
                LET who == matches_compute_winner(nz.norm)
                    m   == [ms[idx] EXCEPT !.sets = nz.norm,
                                           !.winner = WinnerId(ms[idx], who),
                                           !.status = req.status,
                                           !.updatedBy = req.auth.sub]
                    ms1 == [ms EXCEPT ![idx] = m]
                    ms2 == matches_propagate(ms1, m)
                    M2  == [M EXCEPT ![req.category].matches = ms2]
                IN  [resp |-> Resp(200, "ok"), matches |-> M2,
                     standings |-> matches_refresh(M2, S, m, req.category, req.auth)]

\* "Always generate unique ID automatically"
\* a variant of NextMatchId that numbers by the count of stored matches
NextMatchId_mut_count(ms) == Len(ms) + 1

NextMatchId(ms) ==
    IF Len(ms) = 0 THEN 1
    ELSE 1 + (CHOOSE x \in {ms[i].id : i \in 1..Len(ms)} :
                 \A j \in 1..Len(ms) : ms[j].id <= x)

\* create_match, lines 224-261: the validation of the payload
create_match_checks(req) ==
    IF req.player1 = "" \/ req.player2 = "" THEN "player1 and player2 required"
    ELSE IF req.player1 = req.player2 THEN "player1 and player2 must be different"
    ELSE IF req.category \notin Categories THEN "category must be man|woman"
    ELSE IF req.type \notin {"group", "elimination"} THEN "type must be group|elimination"
    ELSE IF req.status \notin MatchStatuses THEN "status must be pending|scheduled|in_progress|final"
    ELSE IF req.type = "group" /\ ~Truthy(req.group) THEN "group required for group type"
    ELSE IF req.type = "elimination" /\ req.round = 0 THEN "round required for elimination type"
    ELSE validate_sets(req.sets, 1)

\* create_match(payload, auth_user), req = [auth, category, type, id, player1,
\* player2, winner, status, sets, group, round, advancesTo]; id is the id the
\* payload supplies (0 when it supplies none), which line 222 never reads
create_match(M, req) ==
    IF ~req.auth.valid \/ req.auth.role # "admin"
    THEN [resp |-> Resp(403, "Admin access required"), matches |-> M]
    ELSE LET err == create_match_checks(req)
         IN  IF err # "" THEN [resp |-> Resp(400, err), matches |-> M]
             ELSE
             LET doc == M[req.category]
                 new == [id |-> NextMatchId(doc.matches), type |-> req.type,
                         p1 |-> req.player1, p2 |-> req.player2,
                         sets |-> req.sets, winner |-> req.winner,
                         status |-> req.status, updatedBy |-> req.auth.sub,
                         advancesTo |-> IF req.type = "elimination"
                                        THEN req.advancesTo ELSE NoAdv]
             IN  [resp |-> Resp(201, "created"),
                  matches |-> [M EXCEPT ![req.category] =
                      [matches |-> Append(doc.matches, new),
                       version |-> doc.version + 1]]]

\* lines 323-347: the category searched, "" when the match is in neither
FindCategory(M, category, id) ==
    LET order == IF category # "" THEN << category >> ELSE << "man", "woman" >>
        hits == {i \in 1..Len(order) : FindIdx(M[order[i]].matches, id) # 0}
    IN  IF hits = {} THEN ""
        ELSE order[CHOOSE i \in hits : \A j \in hits : i <= j]

\* update_match(payload, auth_user), req = [auth, category, id, fields,
\* player1, player2, winner, status, sets, advancesTo]; fields names the
\* optional keys present in the payload
update_match(M, S, req) ==
    LET stay(r) == [resp |-> r, matches |-> M, standings |-> S]
    IN  IF req.category # "" /\ req.category \notin Categories
        THEN stay(Resp(400, "category must be man|woman"))
        ELSE
        LET cat == FindCategory(M, req.category, req.id)
        IN  IF cat = "" THEN stay(Resp(404, "Match not found"))
            ELSE IF req.player1 # "" /\ req.player2 # "" /\ req.player1 = req.player2
            THEN stay(Resp(400, "player1 and player2 must be different"))
            ELSE IF req.status # "" /\ req.status \notin MatchStatuses
            THEN stay(Resp(400, "status must be pending|scheduled|in_progress|final"))
            ELSE IF "sets" \in req.fields /\ validate_sets(req.sets, 1) # ""
            THEN stay(Resp(400, validate_sets(req.sets, 1)))
            \* auth_user.get("sub") on None raises; the router answers 500
            ELSE IF ~req.auth.valid THEN stay(Resp(500, "Internal error"))
            ELSE
            LET ms  == M[cat].matches
                idx == FindIdx(ms, req.id)
                old == ms[idx]
                m   == [old EXCEPT
                          !.p1 = IF req.player1 # "" THEN req.player1 ELSE @,
                          !.p2 = IF req.player2 # "" THEN req.player2 ELSE @,
                          !.winner = IF "winner" \in req.fields THEN req.winner ELSE @,
                          !.status = IF req.status # "" THEN req.status ELSE @,
                          !.sets = IF "sets" \in req.fields THEN req.sets ELSE @,
                          !.advancesTo = IF "advancesTo" \in req.fields
                                         THEN req.advancesTo ELSE @,
                          !.updatedBy = req.auth.sub]
                M2  == [M EXCEPT ![cat] = [matches |-> [ms EXCEPT ![idx] = m],
                                           version |-> M[cat].version + 1]]
            IN  [resp |-> Resp(200, "updated"), matches |-> M2,
                 standings |-> matches_refresh(M2, S, m, cat, req.auth)]

\* delete_match(payload, auth_user), req = [auth, category, id]
delete_match(M, S, req) ==
    LET stay(r) == [resp |-> r, matches |-> M, standings |-> S]
    IN  IF ~req.auth.valid \/ req.auth.role # "admin"
        THEN stay(Resp(403, "Admin access required"))
        ELSE IF req.category # "" /\ req.category \notin Categories
        THEN stay(Resp(400, "category must be man|woman"))
        ELSE
        LET cat == FindCategory(M, req.category, req.id)
        IN  IF cat = "" THEN stay(Resp(404, "Match not found"))
            ELSE
            LET ms  == M[cat].matches
                idx == FindIdx(ms, req.id)
                M2  == [M EXCEPT ![cat] =
                          [matches |-> SubSeq(ms, 1, idx - 1) \o SubSeq(ms, idx + 1, Len(ms)),
                           version |-> M[cat].version + 1]]
            IN  [resp |-> Resp(200, "deleted"), matches |-> M2,
                 standings |-> matches_refresh(M2, S, ms[idx], cat, req.auth)]

-----------------------------------------------------------------------------
(* groups.py *)

GroupSize == 4

\* f"G{len(groups)+1}"
GroupName(n) ==
    CASE n = 1 -> "G1" [] n = 2 -> "G2" [] n = 3 -> "G3" [] n = 4 -> "G4"
      [] n = 5 -> "G5" [] OTHER -> "G6"

ZeroSets == [i \in 1..NumSets |-> SetOf(0, 0)]

\* "Chunk into groups of 4 (keep order)"
Chunks(ids) ==
    LET n == (Len(ids) + GroupSize - 1) \div GroupSize
    IN  [g \in 1..n |->
            [id |-> GroupName(g),
             players |-> SubSeq(ids, (g - 1) * GroupSize + 1,
                                IF g * GroupSize <= Len(ids) THEN g * GroupSize
                                ELSE Len(ids))]]

\* a variant of PairsOf that pairs neighbours only
PairsOf_mut_neighbours(n, a, b) == [k \in 1..(n - 1) |-> << k, k + 1 >>]

\* the pairs (a, b), a < b, of positions of a group, in loop order
RECURSIVE PairsOf(_, _, _)
PairsOf(n, a, b) ==
    IF a >= n THEN << >>
    ELSE IF b > n THEN PairsOf(n, a + 1, a + 2)
    ELSE << << a, b >> >> \o PairsOf(n, a, b + 1)

RECURSIVE RoundRobin(_, _, _)
RoundRobin(gs, g, acc) ==
    IF g > Len(gs) THEN acc
    ELSE LET ids == gs[g].players
             prs == PairsOf(Len(ids), 1, 2)
             new == [k \in 1..Len(prs) |->
                        [id |-> Len(acc) + k, phase |-> "group", groupId |-> gs[g].id,
                         p1 |-> ids[prs[k][1]], p2 |-> ids[prs[k][2]],
                         sets |-> ZeroSets, winner |-> None,
                         status |-> "scheduled", updatedBy |-> None]]
         IN  RoundRobin(gs, g + 1, acc \o new)

EmptyTable(g) ==
    [groupId |-> g.id,
     table |-> [i \in 1..Len(g.players) |->
                  [playerId |-> g.players[i], wins |-> 0, losses |-> 0,
                   setsFor |-> 0, setsAgainst |-> 0,
                   pointsFor |-> 0, pointsAgainst |-> 0, rank |-> 0]]]

\* generate_groups(payload, auth_user), req = [auth, category]; P, G, MG, SG
\* are the players, groups, group-match and group-standings documents
generate_groups(P, G, MG, SG, req) ==
    LET stay(r) == [resp |-> r, groups |-> G, matches_group |-> MG, standings_group |-> SG]
    IN  IF ~req.auth.valid \/ req.auth.role # "admin" THEN stay(Resp(403, "Forbidden"))
        ELSE IF req.category \notin Categories
        THEN stay(Resp(400, "category must be man|woman"))
        ELSE IF Len(P[req.category]) = 0 THEN stay(Resp(400, "no players to group"))
        ELSE
        LET gs == Chunks(P[req.category])
        IN  [resp |-> Resp(200, "ok"),
             groups |-> [G EXCEPT ![req.category] = [groups |-> gs, version |-> 1]],
             matches_group |-> [MG EXCEPT ![req.category] =
                 [matches |-> RoundRobin(gs, 1, << >>), version |-> 1]],
             standings_group |-> [SG EXCEPT ![req.category] =
                 [groups |-> [g \in 1..Len(gs) |-> EmptyTable(gs[g])], version |-> 1]]]

GroupIdx(gs, id) ==
    LET hits == {i \in 1..Len(gs) : gs[i].id = id}
    IN  IF hits = {} THEN 0 ELSE CHOOSE i \in hits : \A j \in hits : i <= j

\* create_group(payload, auth_user), req = [auth, category, id, players]
create_group(G, req) ==
    IF req.id = "" THEN [resp |-> Resp(400, "group id required"), groups |-> G]
    ELSE IF req.category \notin Categories
    THEN [resp |-> Resp(400, "category must be man|woman"), groups |-> G]
    ELSE LET doc == G[req.category]
             new == [id |-> req.id, players |-> req.players]
             i   == GroupIdx(doc.groups, req.id)
         IN  [resp |-> Resp(200, "ok"),
              groups |-> [G EXCEPT ![req.category] =
                  [groups |-> IF i = 0 THEN Append(doc.groups, new)
                              ELSE [doc.groups EXCEPT ![i] = new],
                   version |-> doc.version + 1]]]

-----------------------------------------------------------------------------
(* bracket.py *)

\* "Take top-2 from each group (if present)"
TopTwo(g) ==
    [first  |-> IF Len(g.table) > 0 THEN g.table[1].playerId ELSE None,
     second |-> IF Len(g.table) > 1 THEN g.table[2].playerId ELSE None]

RECURSIVE Seeds(_, _)
Seeds(top, i) ==
    IF i > Len(top) THEN << >>
    ELSE (IF Truthy(top[i].first)
          THEN << [slot |-> (i - 1) * 2 + 1, playerId |-> top[i].first] >> ELSE << >>)
      \o (IF Truthy(top[i].second)
          THEN << [slot |-> (i - 1) * 2 + 2, playerId |-> top[i].second] >> ELSE << >>)
      \o Seeds(top, i + 1)

\* a variant of Pairings that takes the second of the same group
RECURSIVE Pairings_mut_same_group(_, _)
Pairings_mut_same_group(top, i) ==
    IF i > Len(top) THEN << >>
    ELSE LET a == top[i].first
             b == top[i].second
         IN  (IF Truthy(a) /\ Truthy(b) THEN << << a, b >> >> ELSE << >>)
             \o Pairings_mut_same_group(top, i + 1)

\* "Pairings: first of group i vs second of next group"
RECURSIVE Pairings(_, _)
Pairings(top, i) ==
    IF i > Len(top) THEN << >>
    ELSE LET a == top[i].first
             b == top[(i % Len(top)) + 1].second
         IN  (IF Truthy(a) /\ Truthy(b) THEN << << a, b >> >> ELSE << >>)
             \o Pairings(top, i + 1)

ElimMatch(id, round, p1, p2, adv) ==
    [id |-> id, phase |-> "elim", roundName |-> round, p1 |-> p1, p2 |-> p2,
     sets |-> ZeroSets, winner |-> None, status |-> "scheduled",
     advancesTo |-> adv, updatedBy |-> None]

\* a variant of BuildMatches whose lone final waits for its competitors
BuildMatches_mut_blank_final(pairs) ==
    LET P == Len(pairs)
        S == (P + 1) \div 2
        fid == P + S + 1
    IN  IF P <= 1
        THEN << ElimMatch(1, "Final", "", "", NoAdv) >>
        ELSE [k \in 1..P |->
                 ElimMatch(k, "Quarterfinals", pairs[k][1], pairs[k][2],
                     Adv(P + ((k + 1) \div 2), IF k % 2 = 1 THEN "p1" ELSE "p2"))]
          \o [k \in 1..S |->
                 ElimMatch(P + k, "Semifinals", "", "",
                     Adv(fid, IF k = 1 THEN "p1" ELSE "p2"))]
          \o << ElimMatch(fid, "Final", "", "", NoAdv) >>

\* the matches seed_from_groups builds from the pairs.  Ids stand for the
\* random tokens of _new_id, numbered in the order they are drawn:
\* first-round matches 1..P, semifinals P+1..P+S, the final P+S+1.
BuildMatches(pairs) ==
    LET P == Len(pairs)
        S == (P + 1) \div 2
        fid == P + S + 1
    IN  IF P <= 1
        THEN << ElimMatch(1, "Final",
                    IF P = 1 THEN pairs[1][1] ELSE "",
                    IF P = 1 THEN pairs[1][2] ELSE "", NoAdv) >>
        ELSE [k \in 1..P |->
                 ElimMatch(k, "Quarterfinals", pairs[k][1], pairs[k][2],
                     Adv(P + ((k + 1) \div 2), IF k % 2 = 1 THEN "p1" ELSE "p2"))]
          \o [k \in 1..S |->
                 ElimMatch(P + k, "Semifinals", "", "",
                     Adv(fid, IF k = 1 THEN "p1" ELSE "p2"))]
          \o << ElimMatch(fid, "Final", "", "", NoAdv) >>

BuildRounds(pairs) ==
    LET P == Len(pairs)
        S == (P + 1) \div 2
    IN  IF P <= 1 THEN << [name |-> "Final", matchIds |-> << 1 >>] >>
        ELSE << [name |-> "Quarterfinals", matchIds |-> [k \in 1..P |-> k]],
                [name |-> "Semifinals", matchIds |-> [k \in 1..S |-> P + k]],
                [name |-> "Final", matchIds |-> << P + S + 1 >>] >>

\* a variant of seed_from_groups without the first-and-second check
seed_from_groups_mut_nocheck(SG, B, E, req) ==
    LET stay(r) == [resp |-> r, bracket |-> B, matches_elim |-> E]
    IN  IF ~req.auth.valid \/ req.auth.role # "admin" THEN stay(Resp(403, "Forbidden"))
        ELSE IF req.category \notin Categories
        THEN stay(Resp(400, "category must be man|woman"))
        ELSE
        LET gs  == SG[req.category].groups
            top == [i \in 1..Len(gs) |-> TopTwo(gs[i])]
        IN  IF Len(gs) = 0 THEN stay(Resp(400, "no standings available"))
            ELSE
            LET pairs == Pairings(top, 1)
            IN  [resp |-> Resp(200, "ok"),
                 bracket |-> [B EXCEPT ![req.category] =
                     [seeds |-> Seeds(top, 1), rounds |-> BuildRounds(pairs),
                      version |-> 1]],
                 matches_elim |-> [E EXCEPT ![req.category] =
                     [matches |-> BuildMatches(pairs), version |-> 1]]]

\* seed_from_groups(payload, auth_user), req = [auth, category]; SG, B, E are
\* the group-standings, bracket and elimination-match documents
seed_from_groups(SG, B, E, req) ==
    LET stay(r) == [resp |-> r, bracket |-> B, matches_elim |-> E]
    IN  IF ~req.auth.valid \/ req.auth.role # "admin" THEN stay(Resp(403, "Forbidden"))
        ELSE IF req.category \notin Categories
        THEN stay(Resp(400, "category must be man|woman"))
        ELSE
        LET gs  == SG[req.category].groups
            top == [i \in 1..Len(gs) |-> TopTwo(gs[i])]
        IN  IF Len(gs) = 0 THEN stay(Resp(400, "no standings available"))
            ELSE IF \/ ~\E i \in 1..Len(top) : Truthy(top[i].first)
                    \/ ~\E i \in 1..Len(top) : Truthy(top[i].second)
            THEN stay(Resp(400, "need at least two players (first and second) from groups"))
            ELSE
            LET pairs == Pairings(top, 1)
            IN  [resp |-> Resp(200, "ok"),
                 bracket |-> [B EXCEPT ![req.category] =
                     [seeds |-> Seeds(top, 1), rounds |-> BuildRounds(pairs),
                      version |-> 1]],
                 matches_elim |-> [E EXCEPT ![req.category] =
                     [matches |-> BuildMatches(pairs), version |-> 1]]]

\* a variant of bracket_propagate that fills the other slot
bracket_propagate_mut_other_slot(ms, m) ==
    IF m.advancesTo # NoAdv /\ Truthy(m.winner)
    THEN LET n == FindIdx(ms, m.advancesTo.matchId)
         IN  IF n = 0 THEN ms
             ELSE IF m.advancesTo.as = "p1" THEN [ms EXCEPT ![n].p2 = m.winner]
             ELSE [ms EXCEPT ![n].p1 = m.winner]
    ELSE ms

\* a variant of bracket_propagate that carries the winner on, into the
\* match after the next one as well
bracket_propagate_mut_cascade(ms, m) ==
    IF m.advancesTo # NoAdv /\ Truthy(m.winner)
    THEN LET n == FindIdx(ms, m.advancesTo.matchId)
             one == IF n = 0 THEN ms
                    ELSE IF m.advancesTo.as = "p1" THEN [ms EXCEPT ![n].p1 = m.winner]
                    ELSE [ms EXCEPT ![n].p2 = m.winner]
             n2 == IF n = 0 \/ ms[n].advancesTo = NoAdv THEN 0
                   ELSE FindIdx(ms, ms[n].advancesTo.matchId)
         IN  IF n2 = 0 THEN one
             ELSE IF ms[n].advancesTo.as = "p1" THEN [one EXCEPT ![n2].p1 = m.winner]
             ELSE [one EXCEPT ![n2].p2 = m.winner]
    ELSE ms

\* lines 229-236: the file is read again and the slot of the next match set
bracket_propagate(ms, m) ==
    IF m.advancesTo # NoAdv /\ Truthy(m.winner)
    THEN LET n == FindIdx(ms, m.advancesTo.matchId)
         IN  IF n = 0 THEN ms
             ELSE IF m.advancesTo.as = "p1" THEN [ms EXCEPT ![n].p1 = m.winner]
             ELSE [ms EXCEPT ![n].p2 = m.winner]
    ELSE ms

\* update_score(payload, auth_user) for elimination matches,
\* req = [auth, category, matchId, sets, status]
bracket_update_score(E, req) ==
    LET stay(r) == [resp |-> r, matches_elim |-> E]
    IN  IF ~req.auth.valid THEN stay(Resp(401, "Unauthorized"))
        ELSE IF req.category \notin Categories
        THEN stay(Resp(400, "category must be man|woman"))
        ELSE IF req.status \notin ScoreStatuses THEN stay(Resp(400, "status invalid"))
        ELSE IF req.matchId = 0 \/ Len(req.sets) # NumSets
        THEN stay(Resp(400, "matchId and exactly 5 sets required"))
        ELSE
        LET ms  == E[req.category].matches
            idx == FindIdx(ms, req.matchId)
        IN  IF idx = 0 THEN stay(Resp(404, "Match not found"))
            ELSE IF ~(req.auth.role = "admin" \/ req.auth.playerId \in {ms[idx].p1, ms[idx].p2})
            THEN stay(Resp(403, "Forbidden"))
            ELSE
            LET nz == normalize(req.sets, 1, << >>)
            IN  IF nz.err # "" THEN stay(Resp(400, nz.err))
                ELSE
                LET side == bracket_winner_side(nz.norm)
                    m    == [ms[idx] EXCEPT !.sets = nz.norm,
                                            !.winner = WinnerId(ms[idx], side),
                                            !.status = req.status,
                                            !.updatedBy = req.auth.sub]
                    ms1  == [ms EXCEPT ![idx] = m]
                IN  [resp |-> Resp(200, "ok"),
                     matches_elim |-> [E EXCEPT ![req.category].matches =
                                          bracket_propagate(ms1, m)]]

-----------------------------------------------------------------------------
(* auth.py: the handlers that change who is registered *)

UserIdx(users, username) ==
    LET hits == {i \in 1..Len(users) : users[i].username = username}
    IN  IF hits = {} THEN 0 ELSE CHOOSE i \in hits : \A j \in hits : i <= j

\* update_account(payload, auth_user), req = [auth, username, role,
\* category, fields, playerId]; "" stands for a field that was not sent,
\* fields tells whether the key playerId is in the payload
update_account(A, req) ==
    LET stay(r) == [resp |-> r, accounts |-> A]
        idx == UserIdx(A.users, req.username)
    IN  IF ~req.auth.valid \/ req.auth.role # "admin"
        THEN stay(Resp(403, "Admin access required"))
        ELSE IF req.username = "" THEN stay(Resp(400, "username required"))
        ELSE IF req.role # "" /\ req.role \notin {"admin", "player"}
        THEN stay(Resp(400, "role must be 'admin' or 'player'"))
        ELSE IF req.category # "" /\ req.category \notin Categories
        THEN stay(Resp(400, "category must be 'man' or 'woman'"))
        ELSE IF req.role = "player" /\ ~Truthy(req.playerId)
        THEN stay(Resp(400, "playerId required for player role"))
        ELSE IF idx = 0 THEN stay(Resp(404, "Account not found"))
        ELSE
        LET u  == A.users[idx]
            u1 == [u EXCEPT !.role = IF req.role # "" THEN req.role ELSE @,
                            !.category = IF req.category # "" THEN req.category ELSE @,
                            !.playerId = IF "playerId" \in req.fields
                                         THEN req.playerId ELSE @]
        IN  [resp |-> Resp(200, "ok"),
             accounts |-> [users |-> [A.users EXCEPT ![idx] = u1],
                           version |-> A.version + 1]]

\* delete_account(payload, auth_user), req = [auth, username]
delete_account(A, req) ==
    LET stay(r) == [resp |-> r, accounts |-> A]
        kept == SelectSeq(A.users, LAMBDA u : u.username # req.username)
    IN  IF ~req.auth.valid \/ req.auth.role # "admin"
        THEN stay(Resp(403, "Admin access required"))
        ELSE IF req.username = "" THEN stay(Resp(400, "username required"))
        ELSE IF req.username = req.auth.sub
        THEN stay(Resp(400, "Cannot delete your own account"))
        ELSE IF Len(kept) = Len(A.users) THEN stay(Resp(404, "Account not found"))
        ELSE [resp |-> Resp(200, "ok"),
              accounts |-> [users |-> kept, version |-> A.version + 1]]

-----------------------------------------------------------------------------
(* Requests: the payloads and callers the handlers are driven with *)

MaxSteps == 2

P1Wins == << SetOf(11, 5), SetOf(11, 7), SetOf(8, 11), SetOf(11, 9), SetOf(0, 0) >>
P2Wins == << SetOf(5, 11), SetOf(11, 13), SetOf(12, 10), SetOf(9, 11), SetOf(0, 0) >>
NoWin  == << SetOf(11, 9), SetOf(9, 11), SetOf(11, 10), SetOf(9, 7), SetOf(0, 0) >>

WithFirst(sets, v) == [sets EXCEPT ![1] = [p1 |-> v, p2 |-> IntV(5)]]

Len4    == SubSeq(P1Wins, 1, 4)
Len6    == Append(P1Wins, SetOf(0, 0))
Over50  == WithFirst(P1Wins, IntV(51))
Below0  == [P1Wins EXCEPT ![5] = SetOf(0, -1)]
Frac11  == WithFirst(P1Wins, FracV(11))
FracNeg == [P1Wins EXCEPT ![5] = [p1 |-> FracV(-1), p2 |-> IntV(0)]]
NumStr  == WithFirst(P1Wins, NumStrV(11))
Str     == WithFirst(P1Wins, StrV)
Null    == WithFirst(P1Wins, NullV)

GoodSets  == {P1Wins, P2Wins, NoWin}
ShapeSets == {Len4, Len6, Over50, Below0}
KindSets  == {Frac11, FracNeg, NumStr, Str, Null}

ScoreReq(auth, category, matchId, sets, status) ==
    [auth |-> auth, category |-> category, matchId |-> matchId,
     sets |-> sets, status |-> status]

ScoreReqs ==
    {ScoreReq(a, "man", id, st, "final") :
        a \in {Admin, Player("a")}, id \in {1, 3}, st \in GoodSets}
    \cup {ScoreReq(Admin, "man", id, P1Wins, st) :
        id \in {2, 3}, st \in {"final", "scheduled"}}
    \cup {ScoreReq(Admin, "man", 1, st, "final") : st \in ShapeSets \cup KindSets}
    \cup {ScoreReq(Player("c"), "man", 1, st, "final") : st \in {P1Wins, Len4, Over50}}
    \cup {ScoreReq(Admin, "man", 9, Over50, "final"),
          ScoreReq(Anonymous, "man", 1, Len4, "final"),
          ScoreReq(Player("c"), "man", 1, P1Wins, "done"),
          ScoreReq(Admin, "kids", 1, P1Wins, "final"),
          ScoreReq(Admin, "man", 0, P1Wins, "final")}

CreateReq(auth, category, type, p1, p2, adv) ==
    [auth |-> auth, category |-> category, type |-> type, id |-> 0,
     player1 |-> p1, player2 |-> p2, winner |-> None, status |-> "scheduled",
     sets |-> ZeroSets, group |-> IF type = "group" THEN "G1" ELSE None,
     round |-> IF type = "elimination" THEN 1 ELSE 0, advancesTo |-> adv]

CreateReqs ==
    {CreateReq(Admin, "man", "group", "a", "b", NoAdv),
     CreateReq(Admin, "man", "elimination", "a", "b", NoAdv),
     CreateReq(Admin, "man", "elimination", "a", "c", Adv(2, "p2")),
     CreateReq(Admin, "woman", "elimination", "w", "v", NoAdv),
     \* a payload without "sets": the default is the empty list
     [CreateReq(Admin, "man", "group", "b", "c", NoAdv) EXCEPT !.sets = << >>],
     \* a payload that supplies the id of a stored match
     [CreateReq(Admin, "man", "group", "c", "a", NoAdv) EXCEPT !.id = 1],
     CreateReq(Admin, "man", "group", "a", "a", NoAdv),
     CreateReq(Player("a"), "man", "group", "a", "b", NoAdv),
     CreateReq(Anonymous, "man", "group", "a", "b", NoAdv)}

UpdateReq(auth, category, id, fields, winner, status, adv) ==
    [auth |-> auth, category |-> category, id |-> id, fields |-> fields,
     player1 |-> "", player2 |-> "", winner |-> winner, status |-> status,
     sets |-> << >>, advancesTo |-> adv]

UpdateReqs ==
    {UpdateReq(a, c, 1, {"winner"}, "b", "final", NoAdv) :
        a \in {Admin, Player("c"), Anonymous}, c \in {"man", "woman", ""}}
    \cup {UpdateReq(a, "man", 1, {"advancesTo"}, None, "", Adv(2, "p1")) :
        a \in {Admin, Player("c")}}
    \cup {UpdateReq(Admin, "man", 9, {"winner"}, "b", "", NoAdv),
          UpdateReq(Admin, "man", 1, {}, None, "over", NoAdv)}

DeleteReqs ==
    {[auth |-> a, category |-> "man", id |-> id] :
        a \in {Admin, Player("a")}, id \in {2, 9}}
    \cup {[auth |-> Anonymous, category |-> "man", id |-> 2]}

CategoryReqs ==
    {[auth |-> a, category |-> "man"] : a \in {Admin, Player("a"), Anonymous}}
    \cup {[auth |-> Admin, category |-> "woman"], [auth |-> Admin, category |-> "kids"]}

GroupReqs ==
    {[auth |-> a, category |-> "man", id |-> "G1", players |-> << "c", "d" >>] :
        a \in {Admin, Player("a"), Anonymous}}
    \cup {[auth |-> Admin, category |-> "man", id |-> "G9", players |-> << "e" >>],
          [auth |-> Admin, category |-> "man", id |-> "", players |-> << >>],
          [auth |-> Admin, category |-> "kids", id |-> "G1", players |-> << >>]}

-----------------------------------------------------------------------------
(* The stores the handlers start from *)

NoDocs(doc) == [c \in Categories |-> doc]

\* every key absent: readers substitute their default document
Fresh ==
    [accounts |-> [users |-> Registered, version |-> 1],
     players |-> [c \in Categories |->
                    IF c = "man" THEN << "a", "b", "c", "d", "e", "f" >> ELSE << >>],
     groups |-> NoDocs([groups |-> << >>, version |-> 1]),
     matches_group |-> NoDocs([matches |-> << >>, version |-> 0]),
     standings_group |-> NoDocs([groups |-> << >>, version |-> 0]),
     bracket |-> NoDocs([seeds |-> << >>, rounds |-> << >>, version |-> 0]),
     matches_elim |-> NoDocs([matches |-> << >>, version |-> 0]),
     matches |-> NoDocs([matches |-> << >>, version |-> 1]),
     standings |-> NoDocs([players |-> << >>, version |-> 0])]

\* the store after the admin has set a tournament up: groups generated and
\* the bracket seeded for "man", and four matches created, each by the
\* handler's own operator
Deployed ==
    LET gen  == generate_groups(Fresh.players, Fresh.groups, Fresh.matches_group,
                    Fresh.standings_group, [auth |-> Admin, category |-> "man"])
        seed == seed_from_groups(gen.standings_group, Fresh.bracket, Fresh.matches_elim,
                    [auth |-> Admin, category |-> "man"])
        m1 == create_match(Fresh.matches,
                    CreateReq(Admin, "man", "group", "a", "b", NoAdv)).matches
        m2 == create_match(m1,
                    CreateReq(Admin, "man", "elimination", "a", "b", NoAdv)).matches
        m3 == create_match(m2,
                    CreateReq(Admin, "man", "elimination", "a", "c", Adv(2, "p2"))).matches
        m4 == create_match(m3,
                    CreateReq(Admin, "woman", "elimination", "w", "v", NoAdv)).matches
    IN  [Fresh EXCEPT !.groups = gen.groups, !.matches_group = gen.matches_group,
                      !.standings_group = gen.standings_group,
                      !.bracket = seed.bracket, !.matches_elim = seed.matches_elim,
                      !.matches = m4]

NoRequest == [op |-> "none", req |-> [auth |-> Anonymous], code |-> 0,
              msg |-> "", repeat |-> FALSE]

\* the two concurrent invocations of a score update, none begun
Callers == {1, 2}

NoCall == [pc |-> "idle", op |-> "none",
           req |-> [auth |-> Anonymous, category |-> "", matchId |-> 0,
                    sets |-> << >>, status |-> ""],
           snap |-> [matches |-> << >>, version |-> 0],
           again |-> [matches |-> << >>, version |-> 0],
           scored |-> << >>, code |-> 0]

HarnessIdle ==
    /\ evalSets = << >>
    /\ evalOut = [matches |-> "", bracket |-> ""]
    /\ probe = [a |-> 0, b |-> 0, w |-> << 0, 0 >>, err |-> "none"]
    /\ calls = [p \in Callers |-> NoCall]

StoreIs(d) ==
    /\ accounts = d.accounts
    /\ players = d.players
    /\ groups = d.groups
    /\ matches_group = d.matches_group
    /\ standings_group = d.standings_group
    /\ bracket = d.bracket
    /\ matches_elim = d.matches_elim
    /\ matches = d.matches
    /\ standings = d.standings

Init ==
    /\ \E d \in {Fresh, Deployed} : StoreIs(d)
    /\ last = NoRequest
    /\ steps = 0
    /\ HarnessIdle

-----------------------------------------------------------------------------
(* lambda_function.handler: one action per routed operation *)

\* the request and the response, and whether the request repeats the
\* previous one, which had succeeded
Log(op, req, resp) ==
    [op |-> op, req |-> req, code |-> resp.code, msg |-> resp.msg,
     repeat |-> (last.op = op /\ last.code = 200 /\ last.req = req)]

Tick == steps < MaxSteps /\ steps' = steps + 1 /\ UNCHANGED harness

Unauthorized == Resp(401, "Unauthorized")

MatchesUpdateScore(req) ==
    /\ Tick
    /\ LET r == matches_update_score(matches, standings, req)
       IN  /\ matches' = r.matches
           /\ standings' = r.standings
           /\ last' = Log("matches.updateScore", req, r.resp)
    /\ UNCHANGED << accounts, players, groups, matches_group, standings_group, bracket, matches_elim >>

MatchesCreate(req) ==
    /\ Tick
    /\ LET r == IF ~req.auth.valid THEN [resp |-> Unauthorized, matches |-> matches]
                ELSE create_match(matches, req)
       IN  /\ matches' = r.matches
           /\ last' = Log("matches.create", req, r.resp)
    /\ UNCHANGED << accounts, players, groups, matches_group, standings_group, bracket,
                    matches_elim, standings >>

MatchesUpdate(req) ==
    /\ Tick
    /\ LET r == update_match(matches, standings, req)
       IN  /\ matches' = r.matches
           /\ standings' = r.standings
           /\ last' = Log("matches.update", req, r.resp)
    /\ UNCHANGED << accounts, players, groups, matches_group, standings_group, bracket, matches_elim >>

MatchesDelete(req) ==
    /\ Tick
    /\ LET r == IF ~req.auth.valid
                THEN [resp |-> Unauthorized, matches |-> matches, standings |-> standings]
                ELSE delete_match(matches, standings, req)
       IN  /\ matches' = r.matches
           /\ standings' = r.standings
           /\ last' = Log("matches.delete", req, r.resp)
    /\ UNCHANGED << accounts, players, groups, matches_group, standings_group, bracket, matches_elim >>

StandingsCompute(req) ==
    /\ Tick
    /\ LET r == IF ~req.auth.valid THEN [resp |-> Unauthorized, standings |-> standings]
                ELSE compute_standings(matches, standings, req.category, req.auth)
       IN  /\ standings' = r.standings
           /\ last' = Log("standings.compute", req, r.resp)
    /\ UNCHANGED << accounts, players, groups, matches_group, standings_group, bracket,
                    matches_elim, matches >>

GroupsGenerate(req) ==
    /\ Tick
    /\ LET r == IF ~req.auth.valid
                THEN [resp |-> Unauthorized, groups |-> groups,
                      matches_group |-> matches_group, standings_group |-> standings_group]
                ELSE generate_groups(players, groups, matches_group, standings_group, req)
       IN  /\ groups' = r.groups
           /\ matches_group' = r.matches_group
           /\ standings_group' = r.standings_group
           /\ last' = Log("groups.generate", req, r.resp)
    /\ UNCHANGED << accounts, players, bracket, matches_elim, matches, standings >>

GroupsCreate(req) ==
    /\ Tick
    /\ LET r == create_group(groups, req)
       IN  /\ groups' = r.groups
           /\ last' = Log("groups.create", req, r.resp)
    /\ UNCHANGED << accounts, players, matches_group, standings_group, bracket, matches_elim,
                    matches, standings >>

BracketSeedFromGroups(req) ==
    /\ Tick
    /\ LET r == IF ~req.auth.valid
                THEN [resp |-> Unauthorized, bracket |-> bracket, matches_elim |-> matches_elim]
                ELSE seed_from_groups(standings_group, bracket, matches_elim, req)
       IN  /\ bracket' = r.bracket
           /\ matches_elim' = r.matches_elim
           /\ last' = Log("bracket.seedFromGroups", req, r.resp)
    /\ UNCHANGED << accounts, players, groups, matches_group, standings_group, matches, standings >>

BracketUpdateScore(req) ==
    /\ Tick
    /\ LET r == bracket_update_score(matches_elim, req)
       IN  /\ matches_elim' = r.matches_elim
           /\ last' = Log("bracket.updateScore", req, r.resp)
    /\ UNCHANGED << accounts, players, groups, matches_group, standings_group, bracket,
                    matches, standings >>

Next ==
    \/ \E req \in ScoreReqs : MatchesUpdateScore(req)
    \/ \E req \in CreateReqs : MatchesCreate(req)
    \/ \E req \in UpdateReqs : MatchesUpdate(req)
    \/ \E req \in DeleteReqs : MatchesDelete(req)
    \/ \E req \in CategoryReqs : StandingsCompute(req)
    \/ \E req \in CategoryReqs : GroupsGenerate(req)
    \/ \E req \in GroupReqs : GroupsCreate(req)
    \/ \E req \in CategoryReqs : BracketSeedFromGroups(req)
    \/ \E req \in ScoreReqs : BracketUpdateScore(req)

Spec == Init /\ [][Next]_vars

-----------------------------------------------------------------------------
(* The evaluators on their own: five sets are given one by one and both   *)
(* evaluators applied; or a single set is scored on match 1 of the        *)
(* deployed store, padded with four empty sets                            *)

EvalSamples ==
    { << 11, 5 >>, << 11, 7 >>, << 8, 11 >>, << 11, 9 >>, << 0, 0 >>,
      << 9, 7 >>, << 11, 10 >>, << 15, 13 >>, << 48, 50 >> }

EvalAppend(a, b) ==
    /\ probe.err = "none"
    /\ Len(evalSets) < NumSets
    /\ evalSets' = Append(evalSets, SetOf(a, b))
    /\ evalOut' = IF Len(evalSets') = NumSets
                  THEN [matches |-> matches_compute_winner(evalSets'),
                        bracket |-> bracket_winner_side(evalSets')]
                  ELSE evalOut
    /\ UNCHANGED << docs, last, steps, probe, calls >>

ProbeSet(a, b) ==
    /\ evalSets = << >>
    /\ probe.err = "none"
    /\ LET sets == << SetOf(a, b) >> \o SubSeq(ZeroSets, 2, NumSets)
           r == matches_update_score(Deployed.matches, Deployed.standings,
                    ScoreReq(Admin, "man", 1, sets, "final"))
       IN  probe' = [a |-> a, b |-> b,
                     w |-> matches_tally(<< SetOf(a, b) >>, 1, 0, 0),
                     err |-> IF r.resp.code = 200 THEN "" ELSE r.resp.msg]
    /\ UNCHANGED << docs, last, steps, evalSets, evalOut, calls >>

InitEval ==
    /\ StoreIs(Fresh)
    /\ last = NoRequest
    /\ steps = 0
    /\ HarnessIdle

NextEval ==
    \/ \E p \in EvalSamples : EvalAppend(p[1], p[2])
    \/ /\ probe.err = "none" /\ evalSets = << >>
       /\ \E a \in 0..MaxScore, b \in 0..MaxScore : ProbeSet(a, b)

SpecEval == InitEval /\ [][NextEval]_vars

-----------------------------------------------------------------------------
(* The standings calculator on its own: the admin registers results as    *)
(* matches of category "man", edits the accounts, and computes the table  *)

\* matches registered and accounts edited, together
MaxEdits == 3

Edits == Len(matches["man"].matches) + accounts.version - 1

StandMatchReq(p1, p2, sets, winner, status) ==
    [CreateReq(Admin, "man", "group", p1, p2, NoAdv) EXCEPT
        !.sets = sets, !.winner = winner, !.status = status]

StandMatchReqs ==
    {StandMatchReq(pr[1], pr[2], P1Wins, pr[1], "final") :
        pr \in {<< "a", "b" >>, << "b", "c" >>, << "c", "a" >>}}
    \cup {StandMatchReq("a", "b", P2Wins, "b", "final")}
    \cup {StandMatchReq(pr[1], pr[2], NoWin, None, "final") :
        pr \in {<< "a", "b" >>, << "b", "c" >>}}
    \cup {StandMatchReq("a", "b", P1Wins, "a", "scheduled"),
          StandMatchReq("a", "d", P1Wins, "a", "final"),
          StandMatchReq("a", "b", P1Wins, "c", "final")}

AccountReq(auth, username, role, category, fields, playerId) ==
    [auth |-> auth, username |-> username, role |-> role, category |-> category,
     fields |-> fields, playerId |-> playerId]

AccountUpdateReqs ==
    {AccountReq(Admin, "b", "", "", {"playerId"}, "a"),
     AccountReq(Admin, "c", "", "woman", {}, None),
     AccountReq(Admin, "w", "", "man", {}, None),
     AccountReq(Admin, "admin", "", "man", {"playerId"}, "z"),
     AccountReq(Admin, "nobody", "", "", {}, None),
     AccountReq(Player("a"), "b", "", "", {"playerId"}, "a")}

AccountDeleteReqs ==
    {[auth |-> Admin, username |-> "a"], [auth |-> Admin, username |-> "admin"],
     [auth |-> Anonymous, username |-> "a"]}

StandCreateMatch(req) ==
    /\ Edits < MaxEdits
    /\ LET r == create_match(matches, req)
       IN  /\ matches' = r.matches
           /\ last' = Log("matches.create", req, r.resp)
    /\ UNCHANGED << accounts, players, groups, matches_group, standings_group, bracket,
                    matches_elim, standings, steps, harness >>

StandUpdateAccount(req) ==
    /\ Edits < MaxEdits
    /\ LET r == IF ~req.auth.valid THEN [resp |-> Unauthorized, accounts |-> accounts]
                ELSE update_account(accounts, req)
       IN  /\ accounts' = r.accounts
           /\ last' = Log("accounts.update", req, r.resp)
    /\ UNCHANGED << players, groups, matches_group, standings_group, bracket,
                    matches_elim, matches, standings, steps, harness >>

StandDeleteAccount(req) ==
    /\ Edits < MaxEdits
    /\ LET r == IF ~req.auth.valid THEN [resp |-> Unauthorized, accounts |-> accounts]
                ELSE delete_account(accounts, req)
       IN  /\ accounts' = r.accounts
           /\ last' = Log("accounts.delete", req, r.resp)
    /\ UNCHANGED << players, groups, matches_group, standings_group, bracket,
                    matches_elim, matches, standings, steps, harness >>

StandCompute ==
    /\ LET req == [auth |-> Admin, category |-> "man"]
           r == compute_standings(matches, standings, req.category, req.auth)
       IN  /\ standings' = r.standings
           /\ last' = Log("standings.compute", req, r.resp)
    /\ UNCHANGED << accounts, players, groups, matches_group, standings_group, bracket,
                    matches_elim, matches, steps, harness >>

InitStandings ==
    /\ StoreIs(Fresh)
    /\ last = NoRequest
    /\ steps = 0
    /\ HarnessIdle

NextStandings ==
    \/ \E req \in StandMatchReqs : StandCreateMatch(req)
    \/ \E req \in AccountUpdateReqs : StandUpdateAccount(req)
    \/ \E req \in AccountDeleteReqs : StandDeleteAccount(req)
    \/ StandCompute

SpecStandings == InitStandings /\ [][NextStandings]_vars

-----------------------------------------------------------------------------
(* Properties *)

\* the rule of the specification, stated on plain numbers
RuleWonByFirst(a, b)  == a >= 11 /\ a - b >= 2
RuleWonBySecond(a, b) == b >= 11 /\ b - a >= 2
RuleWins1(sets) ==
    Cardinality({i \in 1..Len(sets) : RuleWonByFirst(sets[i].p1.v, sets[i].p2.v)})
RuleWins2(sets) ==
    Cardinality({i \in 1..Len(sets) : RuleWonBySecond(sets[i].p1.v, sets[i].p2.v)})
RuleSide(sets) ==
    IF RuleWins1(sets) >= 3 THEN "p1" ELSE IF RuleWins2(sets) >= 3 THEN "p2" ELSE None

\* C1: on five sets both evaluators answer p1 exactly when p1 won at least
\* three valid sets, p2 exactly when p2 did, None otherwise, and the two
\* sides never both have three
C1_EvaluatorDecides ==
    Len(evalSets) = NumSets =>
        /\ evalOut.matches \in {"p1", "p2", None}
        /\ (evalOut.matches = "p1") <=> (RuleWins1(evalSets) >= 3)
        /\ (evalOut.matches = "p2") <=> (RuleWins2(evalSets) >= 3)
        /\ (evalOut.matches = None) <=>
               (RuleWins1(evalSets) < 3 /\ RuleWins2(evalSets) < 3)
        /\ ~(RuleWins1(evalSets) >= 3 /\ RuleWins2(evalSets) >= 3)
        /\ evalOut.bracket = evalOut.matches

\* five sets of which two are invalid, three are won by p1 on sets although
\* one more is won by p2: the evaluator has answered p1
C1_Witness ==
    /\ evalSets = << SetOf(11, 5), SetOf(9, 7), SetOf(11, 7), SetOf(8, 11), SetOf(11, 9) >>
    /\ evalOut.matches = "p1"

\* C2: a set counts for the higher scorer exactly when max >= 11 and the
\* difference is >= 2, for neither side otherwise, and a score update
\* carrying it is accepted
C2_ValidSetCounts ==
    probe.err # "none" =>
        /\ probe.w[1] = IF RuleWonByFirst(probe.a, probe.b) THEN 1 ELSE 0
        /\ probe.w[2] = IF RuleWonBySecond(probe.a, probe.b) THEN 1 ELSE 0
        /\ probe.err = ""

\* the set (11,10) has been tallied for neither side and accepted
C2_Witness ==
    probe = [a |-> 11, b |-> 10, w |-> << 0, 0 >>, err |-> ""]


ScoreOps == {"matches.updateScore", "bracket.updateScore"}

\* the matches of the document a score update reads, "" for no category
ScoredList(op, M, E, category) ==
    IF category \notin Categories THEN << >>
    ELSE IF op = "matches.updateScore" THEN M[category].matches
    ELSE E[category].matches

\* the match a score request names, as stored in the given documents
HasTarget(op, M, E, r) == FindIdx(ScoredList(op, M, E, r.category), r.matchId) # 0
Target(op, M, E, r) ==
    ScoredList(op, M, E, r.category)[FindIdx(ScoredList(op, M, E, r.category), r.matchId)]

IsInteger(x) == x.k = "int"
AllIntegers(sets) == \A i \in 1..Len(sets) : IsInteger(sets[i].p1) /\ IsInteger(sets[i].p2)
OutOfRange(x) == IsInteger(x) /\ (x.v < 0 \/ x.v > MaxScore)
BadShape(sets) ==
    \/ Len(sets) # NumSets
    \/ \E i \in 1..Len(sets) : OutOfRange(sets[i].p1) \/ OutOfRange(sets[i].p2)

CallerMayScore(auth, m) == auth.role = "admin" \/ auth.playerId \in {m.p1, m.p2}
WellFormed(r) ==
    r.category \in Categories /\ r.status \in {"scheduled", "in_progress", "final"}
    /\ r.matchId # 0 /\ Len(r.sets) = NumSets

Acceptable(op, M, E, r) ==
    /\ r.auth.valid /\ WellFormed(r)
    /\ HasTarget(op, M, E, r)
    /\ CallerMayScore(r.auth, Target(op, M, E, r))

\* C4: a score update in which some score is not an integer (a fractional
\* number, a numeric string, another string, null) is answered
\* invalid-input and changes no document, the request being otherwise
\* acceptable
C4_NonIntegerRejected ==
    [][ (last'.op \in ScoreOps /\ ~AllIntegers(last'.req.sets)
           /\ Acceptable(last'.op, matches, matches_elim, last'.req))
            => (last'.code = 400 /\ UNCHANGED docs) ]_vars

\* C5 as stated: a score update by a caller who is not admin and is neither
\* p1 nor p2 of the target match is answered forbidden (403) and changes no
\* document
C5_Original ==
    [][ (last'.op \in ScoreOps /\ last'.req.auth.valid
           /\ last'.req.auth.role # "admin"
           /\ HasTarget(last'.op, matches, matches_elim, last'.req)
           /\ ~CallerMayScore(last'.req.auth,
                  Target(last'.op, matches, matches_elim, last'.req)))
            => (last'.code = 403 /\ UNCHANGED docs) ]_vars

\* C5 amended: such an update changes no document; it is answered forbidden
\* when it names a valid status and carries exactly 5 sets, and
\* invalid-input otherwise
C5_StrangerRejected ==
    [][ (last'.op \in ScoreOps /\ last'.req.auth.valid
           /\ last'.req.auth.role # "admin"
           /\ HasTarget(last'.op, matches, matches_elim, last'.req)
           /\ ~CallerMayScore(last'.req.auth,
                  Target(last'.op, matches, matches_elim, last'.req)))
            => /\ UNCHANGED docs
               /\ last'.code = IF WellFormed(last'.req) THEN 403 ELSE 400 ]_vars

\* player c was answered forbidden for match 1, in which c does not play
C5_Witness ==
    /\ last.op \in ScoreOps /\ last.code = 403 /\ last.req.auth = Player("c")
    /\ HasTarget(last.op, matches, matches_elim, last.req)
    /\ "c" \notin {Target(last.op, matches, matches_elim, last.req).p1,
                   Target(last.op, matches, matches_elim, last.req).p2}

\* C6: matches.update invoked by a caller who is not admin leaves every
\* stored match of every category as it was
C6_UpdateMatchAdminOnly ==
    [][ (last'.op = "matches.update" /\ last'.req.auth.role # "admin")
            => matches' = matches ]_vars

\* C7: groups.create invoked by a caller who is not admin leaves the groups
\* document as it was
C7_CreateGroupAdminOnly ==
    [][ (last'.op = "groups.create" /\ last'.req.auth.role # "admin")
            => groups' = groups ]_vars

\* C8: after a successful score update of a group match by a permitted
\* caller, the stored standings of the category are the table computed from
\* the matches stored at that moment
C8_StandingsFollowScore ==
    (/\ last.op = "matches.updateScore" /\ last.code = 200
     /\ Target(last.op, matches, matches_elim, last.req).type = "group")
        => standings[last.req.category].players =
               StandingsTable(matches[last.req.category].matches, last.req.category)


\* a score update that succeeded on a match carrying advancesTo, the
\* request asking for status final, and left a winner on the match (M2, E2
\* are the documents after the update)
ScoredFinalWithWinner(op, M, E, M2, E2, r, code) ==
    /\ op \in ScoreOps /\ code = 200 /\ r.status = "final"
    /\ Target(op, M, E, r).advancesTo # NoAdv
    /\ Truthy(Target(op, M2, E2, r).winner)

Downstream(op, M, E, r) ==
    FindIdx(ScoredList(op, M, E, r.category), Target(op, M, E, r).advancesTo.matchId)

SlotOf(m, slot) == IF slot = "p1" THEN m.p1 ELSE m.p2

IsElimination(op, m) == op = "bracket.updateScore" \/ m.type = "elimination"

\* after the update the slot named by advancesTo holds the winner stored
\* on the scored match
SlotHoldsWinner(op, M, E, M2, E2, r) ==
    LET m == Target(op, M2, E2, r)
        n == ScoredList(op, M2, E2, r.category)[Downstream(op, M, E, r)]
    IN  SlotOf(n, Target(op, M, E, r).advancesTo.as) = m.winner

\* C9 as stated: when any match carrying an advancesTo reference to an
\* existing match is scored final with a determined winner, the referenced
\* slot of the downstream match holds that winner, and the same update
\* applied again changes no document
C9_Original ==
    [][ (/\ ScoredFinalWithWinner(last'.op, matches, matches_elim, matches', matches_elim',
                                 last'.req, last'.code)
         /\ Downstream(last'.op, matches, matches_elim, last'.req) # 0)
            => /\ SlotHoldsWinner(last'.op, matches, matches_elim,
                                  matches', matches_elim', last'.req)
               /\ last'.repeat => UNCHANGED docs ]_vars

\* C9 amended: the same for a match of the elimination phase (any match of
\* the bracket's store, a match of type elimination in matches.json)
C9_WinnerAdvances ==
    [][ (/\ ScoredFinalWithWinner(last'.op, matches, matches_elim, matches', matches_elim',
                                 last'.req, last'.code)
         /\ Downstream(last'.op, matches, matches_elim, last'.req) # 0
         /\ IsElimination(last'.op, Target(last'.op, matches, matches_elim, last'.req)))
            => /\ SlotHoldsWinner(last'.op, matches, matches_elim,
                                  matches', matches_elim', last'.req)
               /\ last'.repeat => UNCHANGED docs ]_vars

\* the quarterfinal a-f of the bracket has been scored final twice with the
\* same sets won by f, and slot p1 of the semifinal holds f
C9_Witness ==
    /\ last.op = "bracket.updateScore" /\ last.code = 200 /\ last.repeat
    /\ last.req.status = "final" /\ last.req.sets = P2Wins
    /\ HasTarget(last.op, matches, matches_elim, last.req)
    /\ LET m == Target(last.op, matches, matches_elim, last.req)
           E == matches_elim[last.req.category].matches
       IN  /\ m.advancesTo # NoAdv /\ m.winner = m.p2
           /\ FindIdx(E, m.advancesTo.matchId) # 0
           /\ SlotOf(E[FindIdx(E, m.advancesTo.matchId)], m.advancesTo.as) = m.winner

\* the matches of a list other than the one with the given id
Others(ms, id) == SelectSeq(ms, LAMBDA x : x.id # id)

\* C10: when the match named by advancesTo is not stored, an acceptable
\* score update whose sets decide a winner succeeds, the scored match
\* holds the sets, the status and the winner, and no other match is
\* created or changed
C10_MissingDownstream ==
    [][ (/\ last'.op \in ScoreOps
         /\ Acceptable(last'.op, matches, matches_elim, last'.req)
         /\ AllIntegers(last'.req.sets) /\ ~BadShape(last'.req.sets)
         /\ RuleSide(last'.req.sets) # None
         /\ Target(last'.op, matches, matches_elim, last'.req).advancesTo # NoAdv
         /\ Downstream(last'.op, matches, matches_elim, last'.req) = 0)
            => LET r   == last'.req
                   old == Target(last'.op, matches, matches_elim, r)
                   new == Target(last'.op, matches', matches_elim', r)
               IN  /\ last'.code = 200
                   /\ new = [old EXCEPT !.sets = r.sets, !.status = r.status,
                                        !.winner = SlotOf(old, RuleSide(r.sets)),
                                        !.updatedBy = r.auth.sub]
                   /\ \A c \in Categories :
                        /\ Others(matches'[c].matches, IF c = r.category THEN r.matchId ELSE 0)
                             = Others(matches[c].matches, IF c = r.category THEN r.matchId ELSE 0)
                        /\ Len(matches'[c].matches) = Len(matches[c].matches)
                   /\ last'.op = "matches.updateScore" => matches_elim' = matches_elim
                   /\ last'.op = "bracket.updateScore" => matches' = matches ]_vars

\* match 3 of matches.json, which advances to the missing match 2, has been
\* scored final with a winner
C10_Witness ==
    /\ last.op = "matches.updateScore" /\ last.code = 200
    /\ last.req.status = "final" /\ last.req.matchId = 3
    /\ HasTarget(last.op, matches, matches_elim, last.req)
    /\ LET m == Target(last.op, matches, matches_elim, last.req)
       IN  /\ m.advancesTo # NoAdv /\ Truthy(m.winner) /\ m.status = "final"
           /\ FindIdx(matches[last.req.category].matches, m.advancesTo.matchId) = 0


-----------------------------------------------------------------------------
(* Seeding on its own: players.json of "man" holds some number of players, *)
(* the groups are generated and the bracket is seeded from them           *)

MaxPlayers == 18

PlayerIds(n) == [i \in 1..n |-> ToString(i)]

InitSeed ==
    /\ \E n \in 0..MaxPlayers :
          StoreIs([Fresh EXCEPT !.players =
              [c \in Categories |-> IF c = "man" THEN PlayerIds(n) ELSE << >>]])
    /\ last = NoRequest
    /\ steps = 0
    /\ HarnessIdle

NextSeed ==
    \/ \E req \in CategoryReqs : GroupsGenerate(req)
    \/ \E req \in CategoryReqs : BracketSeedFromGroups(req)

SpecSeed == InitSeed /\ [][NextSeed]_vars

-----------------------------------------------------------------------------
(* Playing the bracket: the seeded bracket of the set-up tournament (two  *)
(* quarterfinals 1 and 2, semifinal 3, final 4) receives score updates    *)

MaxPlays == 3

PlayReqs ==
    {ScoreReq(Admin, "man", id, st, status) :
        id \in 1..4, st \in {P1Wins, P2Wins}, status \in {"final", "in_progress"}}
    \cup {ScoreReq(Player("a"), "man", id, P1Wins, "final") : id \in {1, 3}}
    \* a result taken back: sets that decide nothing
    \cup {ScoreReq(Admin, "man", 1, NoWin, "in_progress")}

PlayScore(req) ==
    /\ steps < MaxPlays
    /\ steps' = steps + 1
    /\ LET r == bracket_update_score(matches_elim, req)
       IN  /\ matches_elim' = r.matches_elim
           /\ last' = Log("bracket.updateScore", req, r.resp)
    /\ UNCHANGED << accounts, players, groups, matches_group, standings_group, bracket,
                    matches, standings >>
    /\ UNCHANGED harness

InitBracket ==
    /\ StoreIs(Deployed)
    /\ last = NoRequest
    /\ steps = 0
    /\ HarnessIdle

NextBracket == \E req \in PlayReqs : PlayScore(req)

SpecBracket == InitBracket /\ [][NextBracket]_vars

-----------------------------------------------------------------------------
(* Resolving a bracket: a bracket seeded from some number of players, in   *)
(* which every match whose two slots are filled is given a final score    *)
(* with a winner                                                          *)

\* the store after groups.generate and bracket.seedFromGroups for n players
SeededStore(n) ==
    LET base == [Fresh EXCEPT !.players =
                    [c \in Categories |-> IF c = "man" THEN PlayerIds(n) ELSE << >>]]
        gen  == generate_groups(base.players, base.groups, base.matches_group,
                    base.standings_group, [auth |-> Admin, category |-> "man"])
        seed == seed_from_groups(gen.standings_group, base.bracket, base.matches_elim,
                    [auth |-> Admin, category |-> "man"])
    IN  [base EXCEPT !.groups = gen.groups, !.matches_group = gen.matches_group,
                     !.standings_group = gen.standings_group,
                     !.bracket = seed.bracket, !.matches_elim = seed.matches_elim]

\* the admin gives match k, whose two slots are filled and which is not
\* final yet, a final score with a winner
ResolveScore(k, sets) ==
    /\ k \in 1..Len(matches_elim["man"].matches)
    /\ LET m == matches_elim["man"].matches[k]
       IN  /\ Truthy(m.p1) /\ Truthy(m.p2) /\ m.status # "final"
           /\ \E req \in {ScoreReq(Admin, "man", m.id, sets, "final")} :
                \E r \in {bracket_update_score(matches_elim, req)} :
                   /\ matches_elim' = r.matches_elim
                   /\ last' = Log("bracket.updateScore", req, r.resp)
    /\ UNCHANGED << accounts, players, groups, matches_group, standings_group, bracket,
                    matches, standings, steps >>
    /\ UNCHANGED harness

InitResolve ==
    /\ \E n \in 2..MaxPlayers : StoreIs(SeededStore(n))
    /\ last = NoRequest
    /\ steps = 0
    /\ HarnessIdle

NextResolve ==
    \E k \in 1..Len(matches_elim["man"].matches), sets \in {P1Wins, P2Wins} :
        ResolveScore(k, sets)

Filled(k) ==
    /\ k <= Len(matches_elim["man"].matches)
    /\ Truthy(matches_elim["man"].matches[k].p1)
    /\ Truthy(matches_elim["man"].matches[k].p2)

Scored(k) ==
    /\ k <= Len(matches_elim["man"].matches)
    /\ matches_elim["man"].matches[k].status = "final"
    /\ Truthy(matches_elim["man"].matches[k].winner)

\* every match whose two slots are both filled has been given a final
\* score with a winner: nothing is left to score
AllFilledScored ==
    \A k \in 1..Len(matches_elim["man"].matches) : Filled(k) => Scored(k)

SpecResolve == InitResolve /\ [][NextResolve]_vars

-----------------------------------------------------------------------------
(* Two score updates in flight: every read (_get_json) and every write    *)
(* (_put_json) of a handler is a step of its own, and the steps of the    *)
(* two invocations interleave freely                                      *)

\* the checks update_score makes before it reads the document
score_checks(op, req) ==
    IF op = "matches.updateScore" THEN matches_update_score_checks(matches, req)
    ELSE IF ~req.auth.valid THEN Resp(401, "Unauthorized")
    ELSE IF req.category \notin Categories THEN Resp(400, "category must be man|woman")
    ELSE IF req.status \notin ScoreStatuses THEN Resp(400, "status invalid")
    ELSE IF req.matchId = 0 \/ Len(req.sets) # NumSets
    THEN Resp(400, "matchId and exactly 5 sets required")
    ELSE Resp(200, "ok")

\* update_score from the document it has read to its first write: the
\* document to write and the scored match, or the error it answers with
score_first(op, doc, req) ==
    LET ms  == doc.matches
        idx == FindIdx(ms, req.matchId)
        fail(r) == [resp |-> r, doc |-> doc, scored |-> << >>]
    IN  IF idx = 0 THEN fail(Resp(404, "Match not found"))
        ELSE IF ~(req.auth.role = "admin" \/ req.auth.playerId \in {ms[idx].p1, ms[idx].p2})
        THEN fail(Resp(403, "Forbidden"))
        ELSE
        LET nz == normalize(req.sets, 1, << >>)
        IN  IF nz.err # "" THEN fail(Resp(400, nz.err))
            ELSE
            LET who == IF op = "matches.updateScore" THEN matches_compute_winner(nz.norm)
                       ELSE bracket_winner_side(nz.norm)
                m   == [ms[idx] EXCEPT !.sets = nz.norm,
                                       !.winner = WinnerId(ms[idx], who),
                                       !.status = req.status,
                                       !.updatedBy = req.auth.sub]
            IN  [resp |-> Resp(200, "ok"),
                 doc |-> [doc EXCEPT !.matches = [ms EXCEPT ![idx] = m]],
                 scored |-> << m >>]

\* a variant of score_write that changes the scored match in the document
\* as it is stored now, not in the one that was read
score_write_mut_merge(stored, edited, req) ==
    LET i == FindIdx(stored.matches, req.matchId)
        j == FindIdx(edited.matches, req.matchId)
    IN  IF i = 0 THEN edited
        ELSE [stored EXCEPT !.matches = [stored.matches EXCEPT ![i] = edited.matches[j]]]

\* _put_json(key, mf): the document read and edited replaces the stored one
score_write(stored, edited, req) == edited

Propagates(op, m) ==
    /\ op = "bracket.updateScore" \/ m.type = "elimination"
    /\ m.advancesTo # NoAdv
    /\ Truthy(m.winner)

Refreshes(op, m) == op = "matches.updateScore" /\ m.type = "group"

StoredDoc(op, category) ==
    IF op = "matches.updateScore" THEN matches[category] ELSE matches_elim[category]

\* the document of the handler's store is replaced, the other store stays
Put(op, category, doc) ==
    IF op = "matches.updateScore"
    THEN matches' = [matches EXCEPT ![category] = doc] /\ UNCHANGED matches_elim
    ELSE matches_elim' = [matches_elim EXCEPT ![category] = doc] /\ UNCHANGED matches

RaceOps == {"matches.updateScore", "bracket.updateScore"}

RaceReqs(p) ==
    {ScoreReq(Admin, "man", id, IF p = 1 THEN P1Wins ELSE P2Wins, "final") : id \in {1, 2, 3}}
    \cup {ScoreReq(Player("c"), "man", 1, P1Wins, "final")}

RaceFrame ==
    UNCHANGED << accounts, players, groups, matches_group, standings_group, bracket,
                 last, steps, evalSets, evalOut, probe >>

Answer(p, code) == [calls EXCEPT ![p].pc = "done", ![p].code = code]

\* the request arrives; update_score checks it and reads the document
CallRead(p, op, req) ==
    /\ calls[p].pc = "idle"
    /\ LET pre == score_checks(op, req)
           c == [calls[p] EXCEPT !.op = op, !.req = req]
       IN  calls' = [calls EXCEPT ![p] =
                IF pre.code # 200 THEN [c EXCEPT !.pc = "done", !.code = pre.code]
                ELSE [c EXCEPT !.pc = "read", !.snap = StoredDoc(op, req.category)]]
    /\ UNCHANGED << matches, matches_elim, standings >>
    /\ RaceFrame

\* update_score edits the match in the document it read and writes it
CallWrite(p) ==
    /\ calls[p].pc = "read"
    /\ LET c == calls[p]
           r == score_first(c.op, c.snap, c.req)
       IN  IF r.resp.code # 200
           THEN /\ calls' = Answer(p, r.resp.code)
                /\ UNCHANGED << matches, matches_elim >>
           ELSE /\ Put(c.op, c.req.category,
                       score_write(StoredDoc(c.op, c.req.category), r.doc, c.req))
                /\ calls' = [calls EXCEPT ![p] =
                      [c EXCEPT !.scored = r.scored,
                                !.pc = IF Propagates(c.op, r.scored[1]) THEN "written"
                                       ELSE IF Refreshes(c.op, r.scored[1]) THEN "stored"
                                       ELSE "done",
                                !.code = IF Propagates(c.op, r.scored[1])
                                            \/ Refreshes(c.op, r.scored[1])
                                         THEN 0 ELSE 200]]
    /\ UNCHANGED standings
    /\ RaceFrame

\* "Re-read to avoid racing with ourselves": the document is read again
CallReread(p) ==
    /\ calls[p].pc = "written"
    /\ calls' = [calls EXCEPT ![p].pc = "reread",
                              ![p].again = StoredDoc(calls[p].op, calls[p].req.category)]
    /\ UNCHANGED << matches, matches_elim, standings >>
    /\ RaceFrame

\* the slot of the next match is set in the document read again, which is
\* written when that match was found
CallAdvance(p) ==
    /\ calls[p].pc = "reread"
    /\ LET c == calls[p]
           m == c.scored[1]
           ms == c.again.matches
       IN  /\ IF FindIdx(ms, m.advancesTo.matchId) = 0
              THEN UNCHANGED << matches, matches_elim >>
              ELSE Put(c.op, c.req.category,
                       [c.again EXCEPT !.matches =
                           IF c.op = "matches.updateScore" THEN matches_propagate(ms, m)
                           ELSE bracket_propagate(ms, m)])
           /\ calls' = Answer(p, 200)
    /\ UNCHANGED standings
    /\ RaceFrame

\* compute_standings, called for a group match, reads matches.json
CallRecount(p) ==
    /\ calls[p].pc = "stored"
    /\ calls' = [calls EXCEPT ![p].pc = "recount",
                              ![p].again = matches[calls[p].req.category]]
    /\ UNCHANGED << matches, matches_elim, standings >>
    /\ RaceFrame

\* compute_standings writes the table of the matches it read
CallRanked(p) ==
    /\ calls[p].pc = "recount"
    /\ LET c == calls[p]
       IN  standings' = compute_standings([matches EXCEPT ![c.req.category] = c.again],
                            standings, c.req.category, c.req.auth).standings
    /\ calls' = Answer(p, 200)
    /\ UNCHANGED << matches, matches_elim >>
    /\ RaceFrame

InitRace ==
    /\ StoreIs(Deployed)
    /\ last = NoRequest
    /\ steps = 0
    /\ HarnessIdle

NextRace ==
    \/ \E p \in Callers, op \in RaceOps : \E req \in RaceReqs(p) : CallRead(p, op, req)
    \/ \E p \in Callers : CallWrite(p)
    \/ \E p \in Callers : CallReread(p)
    \/ \E p \in Callers : CallAdvance(p)
    \/ \E p \in Callers : CallRecount(p)
    \/ \E p \in Callers : CallRanked(p)

SpecRace == InitRace /\ [][NextRace]_vars

-----------------------------------------------------------------------------
(* Properties of the standings *)

\* the standings of "man" have just been computed from what is stored
JustComputed == last.op = "standings.compute" /\ last.code = 200

Rows == standings["man"].players
Stored == matches["man"].matches
RowIds == {Rows[k].playerId : k \in 1..Len(Rows)}

\* the stored matches the calculator counts: final, both competitors having a row
Counted == {i \in 1..Len(Stored) :
              /\ Stored[i].status = "final"
              /\ Stored[i].p1 \in RowIds /\ Stored[i].p2 \in RowIds}

Plays(i, pid) == pid \in {Stored[i].p1, Stored[i].p2}

\* C11: in the computed table the wins of a row are the counted matches
\* whose winner it is, and its losses the counted matches it played whose
\* winner is set and is someone else; a counted match with no winner adds
\* to matches played but to neither wins nor losses
C11_WinsAndLosses ==
    JustComputed =>
        \A k \in 1..Len(Rows) :
            LET pid == Rows[k].playerId
            IN  /\ Rows[k].matchesPlayed = Cardinality({i \in Counted : Plays(i, pid)})
                /\ Rows[k].wins =
                       Cardinality({i \in Counted : Plays(i, pid) /\ Stored[i].winner = pid})
                /\ Rows[k].losses =
                       Cardinality({i \in Counted : /\ Plays(i, pid)
                                                    /\ Truthy(Stored[i].winner)
                                                    /\ Stored[i].winner # pid})


\* x's (wins, setDifference, pointDifference, winPercentage) compared with
\* y's, component by component
SameTuple(x, y) ==
    /\ x.wins = y.wins /\ x.setDifference = y.setDifference
    /\ x.pointDifference = y.pointDifference /\ x.winPercentage = y.winPercentage

LexGreater(x, y) ==
    LET tx == << x.wins, x.setDifference, x.pointDifference, x.winPercentage >>
        ty == << y.wins, y.setDifference, y.pointDifference, y.winPercentage >>
    IN  \E d \in 1..4 : tx[d] > ty[d] /\ \A e \in 1..(d - 1) : tx[e] = ty[e]

\* C12: in every stored table, a row of smaller rank has a tuple (wins,
\* setDifference, pointDifference, winPercentage) lexicographically greater
\* than or equal to that of a row of larger rank
C12_RankedByTuple ==
    \A c \in Categories :
        LET rows == standings[c].players
        IN  \A i \in 1..Len(rows), j \in 1..Len(rows) :
                rows[i].rank < rows[j].rank =>
                    (LexGreater(rows[i], rows[j]) \/ SameTuple(rows[i], rows[j]))

\* a computed table in which a, c, b have the same wins and set difference
\* and are ranked by point difference, against the order of registration
C12_Witness ==
    /\ JustComputed
    /\ [k \in 1..Len(Rows) |-> Rows[k].playerId] = << "a", "c", "b" >>
    /\ Rows[1].wins = Rows[3].wins /\ Rows[1].setDifference = Rows[3].setDifference
    /\ Rows[1].pointDifference > Rows[2].pointDifference
    /\ Rows[2].pointDifference > Rows[3].pointDifference

\* place of a competitor in the registration order of "man": the index in
\* accounts.json of the first account that carries the id
RegisteredAt(pid) ==
    LET at == {i \in 1..Len(Accounts) :
                  /\ Accounts[i].category = "man" /\ Accounts[i].playerId = pid
                  /\ Accounts[i].role \in {"player", "admin"}}
    IN  CHOOSE i \in at : \A j \in at : i <= j

\* C13: in a table just computed, two rows with equal tuples are ranked in
\* the order of registration of their competitors
C13_TiesKeepRegistrationOrder ==
    JustComputed =>
        \A i \in 1..Len(Rows), j \in 1..Len(Rows) :
            (SameTuple(Rows[i], Rows[j])
               /\ RegisteredAt(Rows[i].playerId) < RegisteredAt(Rows[j].playerId))
                => Rows[i].rank < Rows[j].rank

\* b has beaten a, and c, registered last, has not played: the table is
\* b, c, a; then w (registered after c) joins the category with the same
\* empty tuple as c and is ranked right behind c
C13_Witness ==
    /\ JustComputed
    /\ [k \in 1..Len(Rows) |-> Rows[k].playerId] = << "b", "c", "w", "a" >>
    /\ SameTuple(Rows[2], Rows[3])
    /\ Rows[1].wins = 1

\* C14: computing the standings twice in a row, nothing else being written
\* in between, stores the same document the second time, row for row and
\* field for field
C14_ComputeTwice ==
    [][ (last'.op = "standings.compute" /\ last'.repeat) => standings' = standings ]_vars

\* the standings were computed twice in a row from a store holding a
\* counted match
C14_Witness ==
    /\ JustComputed /\ last.repeat
    /\ \E k \in 1..Len(Rows) : Rows[k].matchesPlayed > 0

\* the ids the category's competitors are registered under
RegisteredIds ==
    {Accounts[i].playerId : i \in {k \in 1..Len(Accounts) :
        /\ Accounts[k].category = "man" /\ Accounts[k].playerId # None
        /\ Accounts[k].role \in {"player", "admin"}}}

\* C15: a table just computed has exactly one row for each registered
\* competitor, and every stored table carries the ranks 1..N, the row at
\* position k having rank k
C15_OneRowEachRanked ==
    /\ \A c \in Categories :
         \A k \in 1..Len(standings[c].players) : standings[c].players[k].rank = k
    /\ JustComputed =>
         /\ RowIds = RegisteredIds
         /\ Len(Rows) = Cardinality(RegisteredIds)

\* a table of four rows computed after the admin's account was given the
\* competitor id z of category man and a match was counted
C15_Witness ==
    /\ JustComputed
    /\ RowIds = {"z", "a", "b", "c"}
    /\ \E k \in 1..Len(Rows) : Rows[k].matchesPlayed > 0
    /\ \A k \in 1..Len(Rows) : Rows[k].rank = k

-----------------------------------------------------------------------------
(* Properties of seeding *)

\* the last request was a seeding that succeeded
Seeded == last.op = "bracket.seedFromGroups" /\ last.code = 200

SeedCat == last.req.category

\* the k-th placer group i of the group standings SG reports, None if none
PlacerOf(SG, cat, i, k) ==
    LET t == SG[cat].groups[i].table
    IN  IF Len(t) >= k THEN t[k].playerId ELSE None

BothExist(pair) == Truthy(pair[1]) /\ Truthy(pair[2])

\* (first of group i, second of group (i+1) mod N), in group order, for
\* each i where both exist
UsablePairsOf(SG, cat) ==
    LET N == Len(SG[cat].groups)
    IN  SelectSeq([i \in 1..N |->
                      << PlacerOf(SG, cat, i, 1), PlacerOf(SG, cat, (i % N) + 1, 2) >>],
                  BothExist)

UsablePairs == UsablePairsOf(standings_group, SeedCat)

\* the matches of the first round of the bracket B among the matches E
FirstRoundOf(B, E, cat) ==
    LET ids == B[cat].rounds[1].matchIds
        first(m) == \E k \in 1..Len(ids) : ids[k] = m.id
    IN  SelectSeq(E[cat].matches, first)

FirstRound == FirstRoundOf(bracket, matches_elim, SeedCat)

SeedGroups == standings_group[SeedCat].groups

MembersOf(g) == { g.table[k].playerId : k \in 1..Len(g.table) }

\* C16: seeding from 4 groups that each report a first and a second placer
\* produces exactly 2 Quarterfinal matches, 1 Semifinal and 1 Final, with
\* Quarterfinal 0 advancing to slot p1 and Quarterfinal 1 to slot p2 of the
\* Semifinal
C16_FourGroups ==
    (/\ Seeded
     /\ Len(SeedGroups) = 4
     /\ \A i \in 1..4 : /\ Truthy(PlacerOf(standings_group, SeedCat, i, 1))
                         /\ Truthy(PlacerOf(standings_group, SeedCat, i, 2)))
    => LET R == bracket[SeedCat].rounds
           E == matches_elim[SeedCat].matches
       IN  /\ Len(R) = 3
           /\ R[1].name = "Quarterfinals" /\ Len(R[1].matchIds) = 2
           /\ R[2].name = "Semifinals" /\ Len(R[2].matchIds) = 1
           /\ R[3].name = "Final" /\ Len(R[3].matchIds) = 1
           /\ Len(E) = 4
           /\ E[1].advancesTo = Adv(R[2].matchIds[1], "p1")
           /\ E[2].advancesTo = Adv(R[2].matchIds[1], "p2")

\* C17: when seeding yields exactly one usable pair, the stored bracket is
\* a single round named Final holding a single match whose p1 and p2 are the
\* paired competitors, with no advancesTo and no other round or match
C17_SinglePairFinal ==
    (Seeded /\ Len(UsablePairs) = 1)
    => LET R == bracket[SeedCat].rounds
           E == matches_elim[SeedCat].matches
       IN  /\ Len(E) = 1
           /\ R = << [name |-> "Final", matchIds |-> << E[1].id >>] >>
           /\ E[1].roundName = "Final"
           /\ E[1].p1 = UsablePairs[1][1]
           /\ E[1].p2 = UsablePairs[1][2]
           /\ E[1].advancesTo = NoAdv

\* two groups, the second of one player: the one pair is (5, 2)
C17_Witness ==
    /\ Seeded
    /\ Len(SeedGroups) = 2
    /\ Len(UsablePairs) = 1
    /\ Len(matches_elim[SeedCat].matches) = 1
    /\ matches_elim[SeedCat].matches[1].p1 = "5"
    /\ matches_elim[SeedCat].matches[1].p2 = "2"

\* C18: whenever seed_from_groups succeeds every first-round match it stores
\* has a non-empty p1 and p2; when the group results yield no pair it answers
\* with an error and writes neither the bracket nor the elimination matches
C18_SeedsOnlyWithPair ==
    [][last'.op = "bracket.seedFromGroups" =>
          /\ last'.code = 200 =>
                LET F == FirstRoundOf(bracket', matches_elim', last'.req.category)
                IN  /\ Len(F) > 0
                    /\ \A k \in 1..Len(F) : Truthy(F[k].p1) /\ Truthy(F[k].p2)
          /\ (/\ last'.req.auth = Admin
              /\ last'.req.category \in Categories
              /\ Len(UsablePairsOf(standings_group, last'.req.category)) = 0)
             => last'.code = 400
          /\ last'.code # 200 =>
                bracket' = bracket /\ matches_elim' = matches_elim]_vars

\* one group of one player: a first placer and no second
C18_Witness ==
    /\ last.op = "bracket.seedFromGroups"
    /\ last.req.auth = Admin
    /\ last.code = 400
    /\ last.msg = "need at least two players (first and second) from groups"
    /\ Len(standings_group["man"].groups) = 1
    /\ bracket = Fresh.bracket
    /\ matches_elim = Fresh.matches_elim

\* C19: for N >= 2 groups with disjoint members the first-round matches are,
\* in group order, exactly the pairs (first of group i, second of group
\* (i+1) mod N) for each i where both exist, and no first-round match has
\* two competitors from the same group
C19_PairsInGroupOrder ==
    (/\ Seeded
     /\ Len(SeedGroups) >= 2
     /\ \A i, j \in 1..Len(SeedGroups) :
           i # j => MembersOf(SeedGroups[i]) \cap MembersOf(SeedGroups[j]) = {})
    => /\ [k \in 1..Len(FirstRound) |-> << FirstRound[k].p1, FirstRound[k].p2 >>]
              = UsablePairs
       /\ \A k \in 1..Len(FirstRound) : \A i \in 1..Len(SeedGroups) :
             ~(/\ FirstRound[k].p1 \in MembersOf(SeedGroups[i])
               /\ FirstRound[k].p2 \in MembersOf(SeedGroups[i]))

\* four full groups: the last pair wraps around to the second of group 0
C19_Witness ==
    /\ Seeded
    /\ Len(SeedGroups) = 4
    /\ Len(FirstRound) = 4
    /\ FirstRound[1].p1 = "1" /\ FirstRound[1].p2 = "6"
    /\ FirstRound[4].p1 = "13" /\ FirstRound[4].p2 = "2"

\* the competitor the stored bracket seeds at a slot, None if none
SeedAt(slot) ==
    LET S == bracket[SeedCat].seeds
        at == {k \in 1..Len(S) : S[k].slot = slot}
    IN  IF at = {} THEN None ELSE S[CHOOSE k \in at : TRUE].playerId

\* the calculator's ranking of the category's stored matches, restricted
\* to the members of group i
RankedInGroup(i) ==
    LET member(r) == r.playerId \in MembersOf(SeedGroups[i])
    IN  SelectSeq(StandingsTable(matches[SeedCat].matches, SeedCat), member)

\* C20: the first and second placer seeding takes for a group are the two
\* highest-ranked members of that group in the calculator's ordering of the
\* category's final matches
C20_SeedsFollowStandings ==
    Seeded =>
        \A i \in 1..Len(SeedGroups) :
            Len(RankedInGroup(i)) >= 2 =>
                /\ SeedAt((i - 1) * 2 + 1) = RankedInGroup(i)[1].playerId
                /\ SeedAt((i - 1) * 2 + 2) = RankedInGroup(i)[2].playerId

\* the stored elimination match with an id (seeding draws distinct ids)
ElimById(id) ==
    LET E == matches_elim[SeedCat].matches
    IN  E[CHOOSE k \in 1..Len(E) : E[k].id = id]

SeedRounds == bracket[SeedCat].rounds

RoundSize(r) == Len(SeedRounds[r].matchIds)

\* C21: in every seeded bracket with more than one round, match j of each
\* non-final round advances to match floor(j/2) of the next round, into slot
\* p1 when j is even and p2 when j is odd; so no two matches advance into
\* the same slot of the same match
C21_PairwiseWiring ==
    (Seeded /\ Len(SeedRounds) > 1)
    => /\ \A r \in 1..(Len(SeedRounds) - 1) : \A j \in 0..(RoundSize(r) - 1) :
             /\ (j \div 2) + 1 <= RoundSize(r + 1)
             /\ ElimById(SeedRounds[r].matchIds[j + 1]).advancesTo
                    = Adv(SeedRounds[r + 1].matchIds[(j \div 2) + 1],
                          IF j % 2 = 0 THEN "p1" ELSE "p2")
       /\ LET E == matches_elim[SeedCat].matches
          IN  \A a, b \in 1..Len(E) :
                  (a # b /\ E[a].advancesTo # NoAdv) => E[a].advancesTo # E[b].advancesTo

\* C22: for every number P >= 2 of first-round pairs the seeded bracket is
\* balanced: the round sizes are P, ceil(P/2), ceil(P/4), ... down to 1, the
\* first round of size 1 is the Final and is the last round, and every match
\* after the first round is created with both slots empty
C22_Balanced ==
    (Seeded /\ Len(UsablePairs) >= 2)
    => /\ RoundSize(1) = Len(UsablePairs)
       /\ \A r \in 2..Len(SeedRounds) : RoundSize(r) = (RoundSize(r - 1) + 1) \div 2
       /\ \A r \in 1..Len(SeedRounds) :
             RoundSize(r) = 1 <=> (r = Len(SeedRounds) /\ SeedRounds[r].name = "Final")
       /\ \A r \in 2..Len(SeedRounds) : \A j \in 1..RoundSize(r) :
             LET m == ElimById(SeedRounds[r].matchIds[j])
             IN  m.p1 = "" /\ m.p2 = ""

-----------------------------------------------------------------------------
(* Properties of the match stores *)

\* the index of the match that match k of ms advances into, 0 if none
AdvancesInto(ms, k) ==
    IF ms[k].advancesTo = NoAdv THEN 0 ELSE FindIdx(ms, ms[k].advancesTo.matchId)

\* following advancesTo from match k for at most n hops arrives at match target
RECURSIVE Arrives(_, _, _, _)
Arrives(ms, k, target, n) ==
    IF n = 0 \/ AdvancesInto(ms, k) = 0 THEN FALSE
    ELSE \/ AdvancesInto(ms, k) = target
         \/ Arrives(ms, AdvancesInto(ms, k), target, n - 1)

Acyclic(ms) == \A k \in 1..Len(ms) : ~Arrives(ms, k, k, Len(ms))

\* C23: in every reachable state of a category's match store, following
\* advancesTo from any match never returns to that match
C23_NoAdvancementCycle ==
    \A c \in Categories : Acyclic(matches[c].matches) /\ Acyclic(matches_elim[c].matches)

AllStored(c) ==
    LET all == matches[c].matches \o matches_elim[c].matches \o matches_group[c].matches
    IN  {all[k] : k \in 1..Len(all)}

\* C25: every match held in any category's match store has exactly five sets
C25_FiveSets ==
    \A c \in Categories : \A m \in AllStored(c) : Len(m.sets) = NumSets

\* the documents of category c an operation writes when it succeeds, as
\* pairs << version before, version after >>
WrittenVersions(op, c) ==
    IF op \in {"matches.updateScore", "matches.create", "matches.update", "matches.delete"}
    THEN { << matches[c].version, matches'[c].version >> }
    ELSE IF op = "standings.compute"
    THEN { << standings[c].version, standings'[c].version >> }
    ELSE IF op = "bracket.seedFromGroups"
    THEN { << bracket[c].version, bracket'[c].version >>,
           << matches_elim[c].version, matches_elim'[c].version >> }
    ELSE IF op = "bracket.updateScore"
    THEN { << matches_elim[c].version, matches_elim'[c].version >> }
    ELSE IF op = "groups.generate"
    THEN { << groups[c].version, groups'[c].version >>,
           << matches_group[c].version, matches_group'[c].version >>,
           << standings_group[c].version, standings_group'[c].version >> }
    ELSE IF op = "groups.create"
    THEN { << groups[c].version, groups'[c].version >> }
    ELSE {}

\* C26: every successful operation that writes a category document stores a
\* version strictly greater than the version the document held before
C26_VersionGrows ==
    [][(last'.code \in {200, 201} /\ last'.req.category \in Categories)
          => \A v \in WrittenVersions(last'.op, last'.req.category) : v[2] > v[1]]_vars

-----------------------------------------------------------------------------
(* Properties of advancement *)

\* a step leaves every stored match other than the one scored as it was
OtherMatchesUnchanged(op, r) ==
    /\ \A c \in Categories :
          LET inM == IF c = r.category /\ op = "matches.updateScore" THEN r.matchId ELSE 0
              inE == IF c = r.category /\ op = "bracket.updateScore" THEN r.matchId ELSE 0
          IN  /\ Others(matches'[c].matches, inM) = Others(matches[c].matches, inM)
              /\ Others(matches_elim'[c].matches, inE) = Others(matches_elim[c].matches, inE)
    /\ matches_group' = matches_group

\* C28: advancement happens only for a final result: a score update whose
\* submitted status is scheduled or in_progress changes no match other than
\* the one being scored, whatever its sets are
C28_OnlyFinalAdvances ==
    [][(/\ last'.op \in ScoreOps
        /\ last'.code = 200
        /\ last'.req.status \in {"scheduled", "in_progress"})
          => OtherMatchesUnchanged(last'.op, last'.req)]_vars

\* match k of after is match k of before except, at most, for one slot
SameButSlot(before, after, slot) ==
    IF slot = "p1" THEN after = [before EXCEPT !.p1 = after.p1]
    ELSE after = [before EXCEPT !.p2 = after.p2]

\* C29: one score update changes at most two matches: the scored match, and
\* in the match named by its advancesTo only the referenced slot; that
\* match's other slot, sets, status, winner and advancesTo, and every other
\* match, are left unchanged
C29_SingleHop ==
    [][last'.op \in ScoreOps =>
          LET op == last'.op
              r  == last'.req
              before == ScoredList(op, matches, matches_elim, r.category)
              after  == ScoredList(op, matches', matches_elim', r.category)
          IN  /\ op = "matches.updateScore" => matches_elim' = matches_elim
              /\ op = "bracket.updateScore" => matches' = matches
              /\ matches_group' = matches_group
              /\ \A c \in Categories \ {r.category} :
                    matches'[c] = matches[c] /\ matches_elim'[c] = matches_elim[c]
              /\ Len(after) = Len(before)
              /\ \A k \in 1..Len(before) :
                    \/ after[k] = before[k]
                    \/ k = FindIdx(before, r.matchId)
                    \/ /\ HasTarget(op, matches, matches_elim, r)
                       /\ Target(op, matches, matches_elim, r).advancesTo # NoAdv
                       /\ k = Downstream(op, matches, matches_elim, r)
                       /\ SameButSlot(before[k], after[k],
                              Target(op, matches, matches_elim, r).advancesTo.as)]_vars

\* quarterfinal 1 of the bracket has been scored with a winner: slot p1 of
\* semifinal 3 holds the winner, and the final that the semifinal advances
\* into still waits for both competitors
C29_Witness ==
    /\ last.op = "bracket.updateScore" /\ last.code = 200
    /\ last.req.category = "man" /\ last.req.matchId = 1
    /\ LET E == matches_elim["man"].matches
       IN  /\ Len(E) = 4
           /\ Truthy(E[1].winner)
           /\ E[1].advancesTo = Adv(3, "p1")
           /\ E[3].p1 = E[1].winner /\ E[3].p2 = ""
           /\ E[3].advancesTo = Adv(4, "p1")
           /\ E[4].p1 = "" /\ E[4].p2 = ""

\* C24: in every state reachable from a seeded bracket by any sequence of
\* elimination score updates, re-scoring included, each elimination match's
\* winner is either unset or equal to that match's current p1 or current p2
C24_WinnerIsCompetitor ==
    \A c \in Categories :
        LET E == matches_elim[c].matches
        IN  \A k \in 1..Len(E) : ~Truthy(E[k].winner) \/ E[k].winner \in {E[k].p1, E[k].p2}

\* the Final of the bracket of "man": the match of its last round
TheFinal ==
    LET R == bracket["man"].rounds
        E == matches_elim["man"].matches
    IN  E[FindIdx(E, R[Len(R)].matchIds[1])]

FinalResolved ==
    /\ Truthy(TheFinal.p1) /\ Truthy(TheFinal.p2)
    /\ TheFinal.status = "final" /\ Truthy(TheFinal.winner)

\* C30: in a bracket seeded with P >= 2 first-round pairs, if every match
\* whose two slots are both filled is eventually given a final score with a
\* winner, then eventually the Final has both slots filled and a winner.
\* Every step makes one more match final, so every run of scoring ends; the
\* claim is stated on the states where no filled match is left to score
C30_BracketResolves ==
    (Len(bracket["man"].rounds[1].matchIds) >= 2 /\ AllFilledScored) => FinalResolved

-----------------------------------------------------------------------------
(* Properties of concurrent score updates *)

BothAnswered == \A p \in Callers : calls[p].pc = "done" /\ calls[p].code = 200

SameDocument ==
    /\ calls[1].op = calls[2].op
    /\ calls[1].req.category = calls[2].req.category

DifferentMatches == calls[1].req.matchId # calls[2].req.matchId

\* both invocations read the document before either wrote it
BothReadFirst == calls[1].snap = calls[2].snap

\* the match caller p scored, as the document holds it now
StoredMatchOf(p) ==
    LET ms == StoredDoc(calls[p].op, calls[p].req.category).matches
    IN  ms[FindIdx(ms, calls[p].req.matchId)]

\* the match caller p scored, as the document held it when p read it
ReadMatchOf(p) ==
    LET ms == calls[p].snap.matches
    IN  ms[FindIdx(ms, calls[p].req.matchId)]

SameResult(m, n) == m.sets = n.sets /\ m.winner = n.winner /\ m.status = n.status

\* the stored document holds the result caller p was answered with
Kept(p) == SameResult(StoredMatchOf(p), calls[p].scored[1])

\* the stored document holds the match of caller p as it was before
Lost(p) == SameResult(StoredMatchOf(p), ReadMatchOf(p)) /\ ~Kept(p)

\* C27: the store has no locking and no compare-and-swap: when two score
\* updates on two different matches of one category both read the document
\* before either writes, then after both report success the stored
\* document holds the result of only one of them
C27_LostUpdate ==
    (BothAnswered /\ SameDocument /\ DifferentMatches /\ BothReadFirst)
    => \E p, q \in Callers : p # q /\ Kept(p) /\ Lost(q)

\* both updates of matches.json were answered 200; match 1 is as it was
\* before caller 1 scored it, only the result of caller 2 is stored
C27_Witness ==
    /\ BothAnswered /\ SameDocument /\ DifferentMatches /\ BothReadFirst
    /\ calls[1].op = "matches.updateScore"
    /\ calls[1].req.matchId = 1 /\ calls[2].req.matchId = 2
    /\ Kept(2) /\ Lost(1)
    /\ StoredMatchOf(1).status = "scheduled"


\* ---------------------------------------------------------------------
\* What the standings table counts
\* ---------------------------------------------------------------------

IsCounted(m) == m.status = "final" /\ m.p1 \in RowIds /\ m.p2 \in RowIds

\* C31: a stored match that is not final, or one of whose competitors is
\* not registered in the category, contributes nothing: the computed rows
\* are the rows computed from the stored matches with those matches removed
C31_OnlyCountedMatches ==
    JustComputed =>
        Rows = StandingsTable(SelectSeq(Stored, IsCounted), "man")

\* the table has been computed over a counted match, a match that is not
\* final and a final match against a competitor with no row
C31_Witness ==
    /\ JustComputed
    /\ Counted # {}
    /\ \E i \in 1..Len(Stored) : Stored[i].status # "final"
    /\ \E i \in 1..Len(Stored) :
          /\ Stored[i].status = "final"
          /\ Stored[i].p1 \in RowIds /\ Stored[i].p2 \notin RowIds
    /\ \E k \in 1..Len(Rows) : Rows[k].playerId = "a" /\ Rows[k].matchesPlayed = 1

RECURSIVE SumSeq(_)
SumSeq(s) == IF s = << >> THEN 0 ELSE Head(s) + SumSeq(Tail(s))

\* the raw scores of one side over all sets of a match
RawPoints(sets, side) ==
    SumSeq([i \in 1..Len(sets) |-> IF side = "p1" THEN sets[i].p1.v ELSE sets[i].p2.v])

\* what the counted matches give a competitor: f1 is taken when the
\* competitor is p1 of the match, f2 when it is p2
OverCounted(pid, f1(_), f2(_)) ==
    SumSeq([i \in 1..Len(Stored) |->
        IF i \notin Counted THEN 0
        ELSE (IF Stored[i].p1 = pid THEN f1(Stored[i].sets) ELSE 0)
           + (IF Stored[i].p2 = pid THEN f2(Stored[i].sets) ELSE 0)])

RawFirst(sets)  == RawPoints(sets, "p1")
RawSecond(sets) == RawPoints(sets, "p2")

\* C32: over the counted matches, pointsWon and pointsLost of a row are the
\* sums of the raw scores of every set, valid or not, while setsWon and
\* setsLost count only the sets that pass the valid-set rule
C32_PointsRawSetsValid ==
    JustComputed =>
        \A k \in 1..Len(Rows) :
            LET pid == Rows[k].playerId
            IN  /\ Rows[k].pointsWon  = OverCounted(pid, RawFirst, RawSecond)
                /\ Rows[k].pointsLost = OverCounted(pid, RawSecond, RawFirst)
                /\ Rows[k].setsWon    = OverCounted(pid, RuleWins1, RuleWins2)
                /\ Rows[k].setsLost   = OverCounted(pid, RuleWins2, RuleWins1)

\* the table has been computed over one counted match with the sets 11-9,
\* 9-11, 11-10, 9-7, 0-0: its first competitor has 40 points and one set
C32_Witness ==
    /\ JustComputed
    /\ Cardinality(Counted) = 1
    /\ \E i \in Counted :
          /\ Stored[i].sets = NoWin
          /\ \E k \in 1..Len(Rows) :
                /\ Rows[k].playerId = Stored[i].p1
                /\ Rows[k].pointsWon = 40 /\ Rows[k].pointsLost = 37
                /\ Rows[k].setsWon = 1 /\ Rows[k].setsLost = 1

RowSum(f(_)) == SumSeq([k \in 1..Len(Rows) |-> f(Rows[k])])

RowSetsWon(r)    == r.setsWon
RowSetsLost(r)   == r.setsLost
RowPointsWon(r)  == r.pointsWon
RowPointsLost(r) == r.pointsLost

\* C39: in every computed table the sets won over all rows equal the sets
\* lost over all rows, and the points won equal the points lost
C39_TotalsBalance ==
    JustComputed =>
        /\ RowSum(RowSetsWon) = RowSum(RowSetsLost)
        /\ RowSum(RowPointsWon) = RowSum(RowPointsLost)

\* the table has been computed over two counted matches and its rows hold
\* sets and points
C39_Witness ==
    /\ JustComputed
    /\ Cardinality(Counted) >= 2
    /\ RowSum(RowSetsWon) >= 6
    /\ RowSum(RowPointsWon) > 0
    /\ \E k \in 1..Len(Rows) : Rows[k].pointsWon # Rows[k].pointsLost


\* ---------------------------------------------------------------------
\* Match ids
\* ---------------------------------------------------------------------

UniqueIds(ms) == \A i, j \in 1..Len(ms) : ms[i].id = ms[j].id => i = j

LargestId(ms) ==
    IF ms = << >> THEN 0
    ELSE CHOOSE x \in {ms[i].id : i \in 1..Len(ms)} : \A j \in 1..Len(ms) : ms[j].id <= x

Created == last.op = "matches.create" /\ last.code = 201

\* C34: no two stored matches of a category share an id, and a created
\* match is appended with the id 1 + the largest id stored before the
\* call, whatever id the payload supplied
C34_FreshIds ==
    /\ [](\A c \in Categories : UniqueIds(matches[c].matches))
    /\ [][Created' =>
            LET c == last'.req.category
                old == matches[c].matches
                new == matches'[c].matches
            IN  /\ Len(new) = Len(old) + 1
                /\ SubSeq(new, 1, Len(old)) = old
                /\ new[Len(new)].id = 1 + LargestId(old)]_vars

\* match 2 was deleted from the matches 1, 2, 3 and a match created with a
\* payload supplying the id 1: it is stored with the id 4
C34_Witness ==
    /\ Created
    /\ last.req.id = 1
    /\ [i \in 1..Len(Stored) |-> Stored[i].id] = << 1, 3, 4 >>


\* ---------------------------------------------------------------------
\* Group generation
\* ---------------------------------------------------------------------

Generated == last.op = "groups.generate" /\ last.code = 200

GenPlayers == players[last.req.category]
GenGroups  == groups[last.req.category].groups
GenMatches == matches_group[last.req.category].matches

\* the matches generated between two given players
Between(x, y) == {k \in 1..Len(GenMatches) : {GenMatches[k].p1, GenMatches[k].p2} = {x, y}}

\* C35: the generated groups are the stored players cut, in order, into
\* consecutive groups of 4 of which only the last may be smaller, and the
\* generated matches are exactly one scheduled match for each pair of
\* players of a group and no match across groups
C35_GroupsOfFourRoundRobin ==
    Generated =>
        /\ Len(GenGroups) = (Len(GenPlayers) + 3) \div 4
        /\ \A g \in 1..Len(GenGroups) :
              /\ Len(GenGroups[g].players) \in 1..4
              /\ g < Len(GenGroups) => Len(GenGroups[g].players) = 4
              /\ \A i \in 1..Len(GenGroups[g].players) :
                    GenGroups[g].players[i] = GenPlayers[4 * (g - 1) + i]
        /\ Len(GenPlayers) =
              4 * (Len(GenGroups) - 1) + Len(GenGroups[Len(GenGroups)].players)
        /\ \A g \in 1..Len(GenGroups) :
              \A a, b \in 1..Len(GenGroups[g].players) :
                 a < b =>
                    /\ Cardinality(Between(GenGroups[g].players[a],
                                           GenGroups[g].players[b])) = 1
                    /\ \A k \in Between(GenGroups[g].players[a], GenGroups[g].players[b]) :
                          GenMatches[k].status = "scheduled"
        /\ \A k \in 1..Len(GenMatches) :
              /\ GenMatches[k].p1 # GenMatches[k].p2
              /\ \E g \in 1..Len(GenGroups) :
                    LET ids == {GenGroups[g].players[i] :
                                   i \in 1..Len(GenGroups[g].players)}
                    IN  GenMatches[k].p1 \in ids /\ GenMatches[k].p2 \in ids

\* six players have been grouped: a group of four, a group of two, and
\* the six matches of the first group and the one of the second
C35_Witness ==
    /\ Generated
    /\ Len(GenPlayers) = 6
    /\ Len(GenGroups) = 2
    /\ Len(GenGroups[1].players) = 4 /\ Len(GenGroups[2].players) = 2
    /\ Len(GenMatches) = 7


\* ---------------------------------------------------------------------
\* The three readings of the set rule
\* ---------------------------------------------------------------------

\* the valid sets the standings calculator counts for p1 and for p2
StandingsSets(sets) ==
    LET t == standings_tally(sets, 1, << 0, 0, 0, 0 >>) IN << t[1], t[2] >>

\* C33: on five sets the group-match evaluator and the elimination-match
\* evaluator answer the same side, and that side is p1 (p2) exactly when
\* the standings calculator counts at least three valid sets for p1 (p2)
C33_EvaluatorsAgree ==
    Len(evalSets) = NumSets =>
        /\ evalOut.matches = evalOut.bracket
        /\ (evalOut.matches = "p1") <=> (StandingsSets(evalSets)[1] >= SetsToWin)
        /\ (evalOut.matches = "p2") <=> (StandingsSets(evalSets)[2] >= SetsToWin)

\* five sets, two of them short of the margin: both evaluators answer p2
\* and the calculator counts three sets for p2 and none for p1
C33_Witness ==
    /\ evalSets = << SetOf(11, 10), SetOf(8, 11), SetOf(48, 50), SetOf(9, 7), SetOf(8, 11) >>
    /\ evalOut.matches = "p2" /\ evalOut.bracket = "p2"
    /\ StandingsSets(evalSets) = << 0, 3 >>


\* ---------------------------------------------------------------------
\* Slots of later rounds
\* ---------------------------------------------------------------------

Elim == matches_elim["man"].matches

\* the matches whose advancesTo names slot s of the match at position n
Feeders(n, s) ==
    {k \in 1..Len(Elim) :
        /\ Elim[k].advancesTo # NoAdv
        /\ Elim[k].advancesTo.matchId = Elim[n].id
        /\ Elim[k].advancesTo.as = s}

\* C36: a filled slot of a match that other matches advance into holds the
\* winner now stored on the match that feeds it; a slot whose feeder was
\* re-scored to another winner or to none does not keep the old competitor
C36_SlotsFollowFeeders ==
    \A n \in 1..Len(Elim) : \A s \in {"p1", "p2"} :
        (Feeders(n, s) # {} /\ Truthy(SlotOf(Elim[n], s))) =>
            \E k \in Feeders(n, s) : Elim[k].winner = SlotOf(Elim[n], s)

PlayedOn(k) ==
    /\ last.op = "bracket.updateScore" /\ last.code = 200
    /\ last.req.category = "man"
    /\ FindIdx(Elim, last.req.matchId) = k

\* C37: a score update on a match one of whose slots is still empty records
\* no winner and changes no other match
C37_NoAdvanceFromHalfEmpty ==
    [][\A k \in 1..Len(Elim) :
          (PlayedOn(k)' /\ (~Truthy(Elim[k].p1) \/ ~Truthy(Elim[k].p2))) =>
              /\ ~Truthy(Elim'[k].winner)
              /\ \A j \in 1..Len(Elim) : j # k => Elim'[j] = Elim[j]]_vars


\* ---------------------------------------------------------------------
\* A propagated winner and the record it came from
\* ---------------------------------------------------------------------

\* the match caller p's result advances into, as the document holds it
\* now: its position, 0 when the result advances nowhere
NextOf(p) ==
    IF ~Propagates(calls[p].op, calls[p].scored[1]) THEN 0
    ELSE FindIdx(StoredDoc(calls[p].op, calls[p].req.category).matches,
                 calls[p].scored[1].advancesTo.matchId)

\* the stored slot caller p's result advances into holds p's winner
SlotHoldsWinnerOf(p) ==
    /\ NextOf(p) # 0
    /\ SlotOf(StoredDoc(calls[p].op, calls[p].req.category).matches[NextOf(p)],
              calls[p].scored[1].advancesTo.as) = calls[p].scored[1].winner

\* C38: once two score updates on two matches of one category have both
\* returned, a downstream slot holds the winner a call propagated only if
\* the stored record of the match that call scored carries that winner
C38_SlotOnlyWithRecord ==
    (BothAnswered /\ SameDocument /\ DifferentMatches) =>
        \A p \in Callers :
            SlotHoldsWinnerOf(p) => StoredMatchOf(p).winner = calls[p].scored[1].winner

====
